---- MODULE Spec2Model ----
(***************************************************************************)
(* Model of the escalation daemon's timer engine                           *)
(* (plugins/pushover/scripts/service/escalation_service.py):               *)
(* EscalationScheduler with its heap of ScheduledEvent objects, the        *)
(* events_by_id index, the lock / condition variable, the RPC workers that *)
(* call add / cancel / status, and the single scheduler thread _run.       *)
(*                                                                         *)
(* Events are objects with identity: an event is named by its creation     *)
(* number e, and ev[e] holds its fields.  The heap and the index hold      *)
(* event numbers, so "is this event still in the heap" is an identity test *)
(* as in the source (id(e) in heap_ids).                                   *)
(*                                                                         *)
(* The clock time.time() is the variable now; it only moves forward.       *)
(***************************************************************************)
EXTENDS Integers, Sequences, FiniteSets, TLC

\* ------------------------------------------------------------------ bounds
MaxTime == 2
MaxEvents == 4
MaxRequests == 2

Workers == {"w1", "w2"}
Ids == {"X", "Y"}
Messages == {"m1", "m2"}
\* the delay lists a client sends with add; delays are JSON integers, so a
\* list may be empty, hold 0, or hold a negative number
DelayLists == {<<>>, <<-1>>, <<2, 1>>}
\* the add requests clients send: <<escalation_id, message, delays>>; the
\* second id is there to be left alone, so one request is enough for it
AddRequests ==
    {<<"X", m, ds>> : m \in Messages, ds \in DelayLists}
        \cup {<<"Y", "m1", <<-1>>>>}

None == "none"

\* session requests served in one run of the daemon
MaxSessionRequests == 4

\* the session ids and pids clients send with register_session /
\* unregister_session; NoPid is a request without "pid" (cmd.get("pid") is None)
SessionIds == {"A", "B"}
NoPid == -1
Pids == {NoPid, 1, 2}

\* the daemon processes started on the same socket path
Daemons == {"d1", "d2", "d3"}

\* _recv_message's limit on the length a frame declares: 1024 * 1024
MaxMessageSize == 1048576

\* the client processes (hooks) that run start_service_if_needed
Clients == {"c1", "c2", "c3"}

\* ------------------------------------------------------------------ state
VARIABLES
    now,          \* time.time()
    ev,           \* the ScheduledEvent objects created so far, by creation number
    heap,         \* EscalationScheduler.heap: a heapq list of events
    events_by_id, \* EscalationScheduler.events_by_id: id -> list of events
    running,      \* EscalationScheduler.running
    lock,         \* holder of EscalationScheduler.lock, or None
    pc,           \* where each RPC worker is inside its handler
    local,        \* the locals of a worker's handler call (add, unregister_session)
    schedPc,      \* where the scheduler thread is in _run
    next_event,   \* _run's next_event after the pop
    waitUntil,    \* the fire_time the timed wait expires at, or -1 (wait())
    woken,        \* the scheduler's wait was ended by condition.notify()
    reply,        \* the reply the step just taken sent to its client, if any
    req,          \* history: the request that reply answers, and what held
                  \* when it was served
    nreq,         \* add and cancel requests accepted so far
    sessions,     \* EscalationService.sessions, in dict (insertion) order
    service_running, \* EscalationService.running
    alive,        \* the pids of processes that exist (os.kill(pid, 0) succeeds)
    mainPc,       \* where the main thread is: accept loop, or in shutdown()
    listening,    \* EscalationService.server_socket is open
    socket_file,  \* the socket path exists
    shist,        \* history: register / unregister requests served, those
                  \* that added / removed a session, whether a sweep removed
    path,         \* what the socket path names in the file system: nothing,
                  \* a file that is no socket, or the socket a daemon bound
    daemons,      \* the daemon processes started on the socket path: where
                  \* each is in start(), and whether it unlinked the path
    clients,      \* where each client is in start_service_if_needed
    lockfile,     \* the client holding the flock on the lockfile, or None
    notified,     \* history: the callback's runs, in order: the event, whether
                  \* po_notify was run, its command line and how it ended
    ctl,          \* the escalation_ctl process: where it is, its command line,
                  \* what is_running() said, the RPC's result, its exit code
    session_lock, \* holder of EscalationService.session_lock, or None
    thr,          \* for each thread of the daemon, the operation it is in and
                  \* how many of its lock statements it has passed
    hist          \* history: the events fired, in order; the events a cancel
                  \* step found in the heap; each event's delay and group;
                  \* the adds completed since the last other change; the
                  \* ids whose latest add had no delays and was not
                  \* cancelled since

serviceVars == <<sessions, service_running, alive, mainPc, listening,
                 socket_file, shist>>

\* the state the handlers of the engine and the registry leave alone: what is
\* outside the daemon process, the callback's history, and the threads' lock
\* statements
hostVars == <<path, daemons, clients, lockfile, notified, ctl, session_lock,
              thr>>

engineVars == <<ev, heap, events_by_id, running, lock, pc, local, schedPc,
                next_event, waitUntil, woken, nreq, hist>>

vars == <<now, ev, heap, events_by_id, running, lock, pc, local, schedPc,
          next_event, waitUntil, woken, reply, req, nreq, hist,
          sessions, service_running, alive, mainPc, listening, socket_file,
          shist, path, daemons, clients, lockfile, notified, ctl,
          session_lock, thr>>

\* ------------------------------------------------------------------ helpers
Range(s) == {s[i] : i \in 1..Len(s)}

Min(S) == CHOOSE x \in S : \A y \in S : x <= y

Max2(a, b) == IF a >= b THEN a ELSE b

SeqMin(s) == Min(Range(s))

\* the active events of a list, in list order
RECURSIVE FilterSeq(_, _)
FilterSeq(s, Keep) ==
    IF s = <<>> THEN <<>>
    ELSE IF Head(s) \in Keep THEN <<Head(s)>> \o FilterSeq(Tail(s), Keep)
         ELSE FilterSeq(Tail(s), Keep)

\* (variant) every delay of a minute or more is urgent
PriorityOfLong(delay) == IF delay >= 60 THEN 2 ELSE 0

\* PRIORITIES = {60: 0, 3600: 2}; PRIORITIES.get(delay, 0)
PriorityOf(delay) ==
    IF delay = 60 THEN 0 ELSE IF delay = 3600 THEN 2 ELSE 0

\* ScheduledEvent(fire_time, escalation_id, message, priority), cancelled=False
NewEvent(t, id, m, delay) ==
    [fire_time |-> t + delay, escalation_id |-> id, message |-> m,
     priority |-> PriorityOf(delay), cancelled |-> FALSE]

\* faulty variant: the order of the dataclass reversed
EventGt(E, a, b) == E[a].fire_time > E[b].fire_time

\* @dataclass(order=True) with every field but fire_time compare=False
EventLt(E, a, b) == E[a].fire_time < E[b].fire_time

\* ------------------------------------------------------------------ heapq
\* heapq._siftdown(heap, startpos, pos); positions are 0-based as in Python
RECURSIVE SiftDownLoop(_, _, _, _, _)
SiftDownLoop(E, h, startpos, pos, newitem) ==
    IF pos > startpos
    THEN LET parentpos == (pos - 1) \div 2
             parent == h[parentpos + 1]
         IN  IF EventLt(E, newitem, parent)
             THEN SiftDownLoop(E, [h EXCEPT ![pos + 1] = parent],
                               startpos, parentpos, newitem)
             ELSE [h EXCEPT ![pos + 1] = newitem]
    ELSE [h EXCEPT ![pos + 1] = newitem]

SiftDown(E, h, startpos, pos) == SiftDownLoop(E, h, startpos, pos, h[pos + 1])

\* heapq._siftup(heap, pos): the loop returns <<heap, pos>>
RECURSIVE SiftUpLoop(_, _, _, _)
SiftUpLoop(E, h, pos, childpos) ==
    IF childpos < Len(h)
    THEN LET rightpos == childpos + 1
             c == IF rightpos < Len(h) /\ ~EventLt(E, h[childpos + 1], h[rightpos + 1])
                  THEN rightpos ELSE childpos
         IN  SiftUpLoop(E, [h EXCEPT ![pos + 1] = h[c + 1]], c, 2 * c + 1)
    ELSE <<h, pos>>

SiftUp(E, h, pos) ==
    LET newitem == h[pos + 1]
        r == SiftUpLoop(E, h, pos, 2 * pos + 1)
    IN  SiftDown(E, [r[1] EXCEPT ![r[2] + 1] = newitem], pos, r[2])

\* heapq.heappush(heap, item)
HeapPush(E, h, item) == SiftDown(E, Append(h, item), 0, Len(h))

\* heapq.heappop(heap): the heap that is left (the item returned is h[1])
HeapPop(E, h) ==
    LET lastelt == h[Len(h)]
        rest == SubSeq(h, 1, Len(h) - 1)
    IN  IF rest # <<>> THEN SiftUp(E, [rest EXCEPT ![1] = lastelt], 0) ELSE <<>>

\* ------------------------------------------------------------------ engine
InHeap(h) == Range(h)

\* "not e.cancelled and id(e) in heap_ids"
Active(E, h, events) == {e \in Range(events) : ~E[e].cancelled /\ e \in InHeap(h)}

\* faulty variant: the index entry is dropped but no event is flagged
CancelInternalNoFlag(E, idx, id) ==
    IF id \in DOMAIN idx
    THEN [ev |-> E, index |-> [x \in DOMAIN idx \ {id} |-> idx[x]], found |-> TRUE]
    ELSE [ev |-> E, index |-> idx, found |-> FALSE]

\* faulty variant: the prior group is left as it is
CancelInternalSkip(E, idx, id) ==
    [ev |-> E, index |-> idx, found |-> id \in DOMAIN idx]

\* EscalationScheduler._cancel_internal: the flags, the index and the result
CancelInternal(E, idx, id) ==
    IF id \in DOMAIN idx
    THEN [ev |-> [e \in DOMAIN E |->
                     IF e \in Range(idx[id]) THEN [E[e] EXCEPT !.cancelled = TRUE]
                     ELSE E[e]],
          index |-> [x \in DOMAIN idx \ {id} |-> idx[x]],
          found |-> TRUE]
    ELSE [ev |-> E, index |-> idx, found |-> FALSE]

\* self.events_by_id[escalation_id] = events
SetIndex(idx, id, events) ==
    [x \in DOMAIN idx \cup {id} |-> IF x = id THEN events ELSE idx[x]]

\* faulty variant: next_fire_in taken from the latest active event, not the earliest
StatusOfLatest(E, h, idx, t) ==
    {[escalation_id |-> id,
      message |-> E[Head(FilterSeq(idx[id], Active(E, h, idx[id])))].message,
      pending_count |-> Cardinality(Active(E, h, idx[id])),
      next_fire_in |->
          Max2(0, -Min({-E[e].fire_time : e \in Active(E, h, idx[id])}) - t)]
     : id \in {x \in DOMAIN idx : Active(E, h, idx[x]) # {}}}

\* EscalationScheduler.status: one record per index entry with active events
StatusOf(E, h, idx, t) ==
    {[escalation_id |-> id,
      message |-> E[Head(FilterSeq(idx[id], Active(E, h, idx[id])))].message,
      pending_count |-> Cardinality(Active(E, h, idx[id])),
      next_fire_in |->
          Max2(0, Min({E[e].fire_time : e \in Active(E, h, idx[id])}) - t)]
     : id \in {x \in DOMAIN idx : Active(E, h, idx[x]) # {}}}

\* faulty variant: the index entry of a group that has fired to the end is kept
CleanupFiredEventsKeep(E, h, idx, id) == idx

\* EscalationScheduler._cleanup_fired_events
CleanupFiredEvents(E, h, idx, id) ==
    IF id \in DOMAIN idx /\ Active(E, h, idx[id]) = {}
    THEN [x \in DOMAIN idx \ {id} |-> idx[x]]
    ELSE idx

\* _run: "while self.heap and self.heap[0].cancelled: heapq.heappop(self.heap)"
RECURSIVE SkipCancelled(_, _)
SkipCancelled(E, h) ==
    IF h # <<>> /\ E[h[1]].cancelled THEN SkipCancelled(E, HeapPop(E, h)) ELSE h

\* faulty variant: the event on top of the heap is taken to be due
WaitTimeZero(E, e, t) == 0

\* _run: "wait_time = next_event.fire_time - time.time()"
WaitTime(E, e, t) == E[e].fire_time - t

\* faulty variant: the due event is read but left in the heap
PopDueKeep(E, h) == h

\* _run: "heapq.heappop(self.heap)" of the event that is due
PopDue(E, h) == HeapPop(E, h)

\* "with self.condition:" / "with self.lock:" can be entered
LockFree == lock = None

\* faulty variant: add runs without taking the lock
AcquireLockNot(w) == None

\* add's "with self.condition:" is entered by worker w: the lock's holder
AcquireLock(w) == w

\* faulty variant: add does not notify the condition
NotifyLost == woken

\* self.condition.notify(): ends the wait of the scheduler if it is waiting
Notify == IF schedPc = "wait" THEN TRUE ELSE woken

\* ------------------------------------------------------------------ history
\* the status view without the time-dependent next_fire_in
View(E, h, idx) ==
    {[escalation_id |-> r.escalation_id, message |-> r.message,
      pending_count |-> r.pending_count] : r \in StatusOf(E, h, idx, 0)}

LastTwo(s) == IF Len(s) > 2 THEN SubSeq(s, Len(s) - 1, Len(s)) ELSE s

\* the events of id's indexed group that are still in the heap
GroupInHeap(h, idx, id) ==
    IF id \in DOMAIN idx THEN Range(idx[id]) \cap InHeap(h) ELSE {}

\* an un-cancelled event of id is still in the heap
HasLive(E, h, id) ==
    \E e \in InHeap(h) : E[e].escalation_id = id /\ ~E[e].cancelled

NoLocal == [id |-> None, message |-> None, delays |-> <<>>, all |-> <<>>,
            now |-> 0, events |-> <<>>, old |-> <<>>, heap0 |-> <<>>]

NoReply == [command |-> None]

\* the threads of the daemon: the RPC workers, the scheduler thread, the PID
\* checker and the main thread
Threads == Workers \cup {"scheduler", "checker", "main"}

\* a thread outside every operation that takes a lock
NoOperation == [op |-> None, done |-> 0]

\* a call that returned None
NoResult == [ok |-> FALSE, value |-> NoReply]

\* no escalation_ctl has run
CtlIdle == [pc |-> "idle", command |-> None, id |-> None, up |-> FALSE,
            result |-> NoResult, raised |-> FALSE, exit |-> 0]

\* a step that answers no request
Quiet == reply' = NoReply /\ req' = NoReply

Init ==
    /\ now = 0
    /\ ev = <<>>
    /\ heap = <<>>
    /\ events_by_id = <<>>
    /\ running = TRUE
    /\ lock = None
    /\ pc = [w \in Workers |-> "idle"]
    /\ local = [w \in Workers |-> NoLocal]
    /\ schedPc = "top"
    /\ next_event = 0
    /\ waitUntil = -1
    /\ woken = FALSE
    /\ reply = NoReply
    /\ req = NoReply
    /\ nreq = 0
    /\ hist = [fired |-> <<>>, doomed |-> {}, info |-> <<>>, recent |-> <<>>,
               hollow |-> {}]
    /\ sessions = <<>>
    /\ service_running = TRUE
    /\ alive = Pids \ {NoPid}
    /\ mainPc = "accept"
    /\ listening = TRUE
    /\ socket_file = TRUE
    /\ shist = [n |-> 0, m |-> 0, added |-> 0, removed |-> 0, swept |-> FALSE]
    /\ path = "absent"
    /\ daemons = [d \in Daemons |-> [pc |-> "idle", unlinked |-> FALSE]]
    /\ clients = [c \in Clients |-> "idle"]
    /\ lockfile = None
    /\ notified = <<>>
    /\ ctl = CtlIdle
    /\ session_lock = None
    /\ thr = [t \in Threads |-> NoOperation]

\* ------------------------------------------------------------------ add
\* add, lines 78-83: take the lock, cancel the prior group, read the clock
AddBegin(w, id, m, ds) ==
    /\ pc[w] = "idle"
    /\ nreq < MaxRequests
    /\ Len(ev) + Len(ds) <= MaxEvents
    /\ LockFree
    /\ LET c == CancelInternal(ev, events_by_id, id)
       IN  /\ ev' = c.ev
           /\ events_by_id' = c.index
    /\ hist' = [hist EXCEPT !.doomed = @ \cup GroupInHeap(heap, events_by_id, id)]
    /\ lock' = AcquireLock(w)
    /\ nreq' = nreq + 1
    /\ local' = [local EXCEPT ![w] =
                    [id |-> id, message |-> m, delays |-> ds, all |-> ds,
                     now |-> now, events |-> <<>>,
                     old |-> IF id \in DOMAIN events_by_id
                             THEN events_by_id[id] ELSE <<>>,
                     heap0 |-> heap]]
    /\ pc' = [pc EXCEPT ![w] = IF ds = <<>> THEN "add_end" ELSE "add_push"]
    /\ Quiet
    /\ UNCHANGED serviceVars
    /\ UNCHANGED hostVars
    /\ UNCHANGED <<now, heap, running, schedPc, next_event, waitUntil, woken>>

\* add, lines 85-94: one turn of "for delay in delays"
AddPush(w) ==
    /\ pc[w] = "add_push"
    /\ LET l == local[w]
           d == Head(l.delays)
           e == Len(ev) + 1
       IN  /\ ev' = Append(ev, NewEvent(l.now, l.id, l.message, d))
           /\ heap' = HeapPush(ev', heap, e)
           /\ local' = [local EXCEPT ![w].delays = Tail(l.delays),
                                     ![w].events = Append(l.events, e)]
           /\ hist' = [hist EXCEPT
                  !.info = Append(@, [delay |-> d, grp |-> Head(Append(l.events, e)),
                                      size |-> Len(l.all)])]
           /\ pc' = [pc EXCEPT ![w] =
                        IF Tail(l.delays) = <<>> THEN "add_end" ELSE "add_push"]
    /\ Quiet
    /\ UNCHANGED serviceVars
    /\ UNCHANGED hostVars
    /\ UNCHANGED <<now, events_by_id, running, lock, schedPc, next_event,
                   waitUntil, woken, nreq>>

\* add, lines 96-97, the release of the lock, and the handler's reply
\* (_handle_command, lines 412-414)
AddEnd(w) ==
    /\ pc[w] = "add_end"
    /\ LET l == local[w]
       IN  /\ events_by_id' = SetIndex(events_by_id, l.id, l.events)
           /\ reply' = [command |-> "add", status |-> "ok", escalation_id |-> l.id]
           /\ req' = [command |-> "add", id |-> l.id]
           /\ hist' = [hist EXCEPT
                  !.recent = LastTwo(Append(@,
                      [id |-> l.id, message |-> l.message, delays |-> l.all,
                       events |-> l.events,
                       old |-> l.old, heap0 |-> l.heap0, heap1 |-> heap,
                       view |-> View(ev, heap, events_by_id')])),
                  !.hollow = IF l.all = <<>> THEN @ \cup {l.id} ELSE @ \ {l.id}]
    /\ woken' = Notify
    /\ lock' = IF lock = w THEN None ELSE lock
    /\ local' = [local EXCEPT ![w] = NoLocal]
    /\ pc' = [pc EXCEPT ![w] = "idle"]
    /\ UNCHANGED serviceVars
    /\ UNCHANGED hostVars
    /\ UNCHANGED <<now, ev, heap, running, schedPc, next_event, waitUntil, nreq>>

\* ------------------------------------------------------------------ cancel
\* the cancel handler (_handle_command, lines 416-420): EscalationScheduler.cancel
\* under the lock, and the reply
Cancel(w, id) ==
    /\ pc[w] = "idle"
    /\ nreq < MaxRequests
    /\ LockFree
    /\ LET c == CancelInternal(ev, events_by_id, id)
       IN  /\ ev' = c.ev
           /\ events_by_id' = c.index
           /\ reply' = [command |-> "cancel", status |-> "ok", cancelled |-> c.found]
           /\ nreq' = nreq + 1
    /\ req' = [command |-> "cancel", id |-> id,
               live |-> HasLive(ev, heap, id),
               hollow |-> id \in hist.hollow]
    /\ hist' = [hist EXCEPT !.doomed = @ \cup GroupInHeap(heap, events_by_id, id),
                            !.recent = <<>>,
                            !.hollow = @ \ {id}]
    /\ UNCHANGED serviceVars
    /\ UNCHANGED hostVars
    /\ UNCHANGED <<now, heap, running, lock, pc, local, schedPc, next_event,
                   waitUntil, woken>>

\* ------------------------------------------------------------------ status
\* the status handler (_handle_command, lines 422-438): EscalationScheduler.status
\* under the lock, and the reply's "pending"
Status(w) ==
    /\ pc[w] = "idle"
    /\ LockFree
    /\ reply' = [command |-> "status", status |-> "ok",
                 pending |-> StatusOf(ev, heap, events_by_id, now),
                 session_count |-> Len(sessions)]
    /\ req' = [command |-> "status", after |-> hist.recent]
    /\ UNCHANGED serviceVars
    /\ UNCHANGED hostVars
    /\ UNCHANGED <<now, ev, heap, events_by_id, running, lock, pc, local, schedPc,
                   next_event, waitUntil, woken, nreq, hist>>

\* ------------------------------------------------------------------ scheduler
\* _run, lines 153-179: one pass of the loop body under the lock, up to the
\* wait or to the release of the lock after the pop
SchedTop ==
    /\ schedPc = "top"
    /\ LockFree
    /\ IF ~running
       THEN /\ schedPc' = "exit"
            /\ UNCHANGED <<heap, events_by_id, next_event, waitUntil, woken, hist>>
       ELSE LET h1 == SkipCancelled(ev, heap)
            IN  IF h1 = <<>>
                THEN /\ heap' = h1
                     /\ schedPc' = "wait"
                     /\ waitUntil' = -1
                     /\ woken' = FALSE
                     /\ hist' = [hist EXCEPT
                            !.recent = IF h1 = heap THEN @ ELSE <<>>]
                     /\ UNCHANGED <<events_by_id, next_event>>
                ELSE IF WaitTime(ev, h1[1], now) > 0
                THEN /\ heap' = h1
                     /\ schedPc' = "wait"
                     /\ waitUntil' = now + WaitTime(ev, h1[1], now)
                     /\ woken' = FALSE
                     /\ hist' = [hist EXCEPT
                            !.recent = IF h1 = heap THEN @ ELSE <<>>]
                     /\ UNCHANGED <<events_by_id, next_event>>
                ELSE /\ heap' = PopDue(ev, h1)
                     /\ next_event' = h1[1]
                     /\ events_by_id' = CleanupFiredEvents(ev, heap', events_by_id,
                                                           ev[h1[1]].escalation_id)
                     /\ schedPc' = "fire"
                     /\ hist' = [hist EXCEPT !.recent = <<>>]
                     /\ UNCHANGED <<waitUntil, woken>>
    /\ Quiet
    /\ UNCHANGED serviceVars
    /\ UNCHANGED hostVars
    /\ UNCHANGED <<now, ev, running, lock, pc, local, nreq>>

\* condition.wait() / condition.wait(timeout) returns: notified, or timed out
SchedWake ==
    /\ schedPc = "wait"
    /\ woken \/ (waitUntil >= 0 /\ now >= waitUntil)
    /\ LockFree
    /\ schedPc' = "top"
    /\ woken' = FALSE
    /\ waitUntil' = -1
    /\ Quiet
    /\ UNCHANGED serviceVars
    /\ UNCHANGED hostVars
    /\ UNCHANGED <<now, ev, heap, events_by_id, running, lock, pc, local,
                   next_event, nreq, hist>>

\* _run, lines 181-187: outside the lock, "if not next_event.cancelled:" and
\* the call of notify_callback
SchedFire ==
    /\ schedPc = "fire"
    /\ IF ~ev[next_event].cancelled
       THEN /\ hist' = [hist EXCEPT !.fired = Append(@, next_event)]
            /\ schedPc' = "callback"
       ELSE /\ schedPc' = "top"
            /\ UNCHANGED hist
    /\ Quiet
    /\ UNCHANGED serviceVars
    /\ UNCHANGED hostVars
    /\ UNCHANGED <<now, ev, heap, events_by_id, running, lock, pc, local,
                   next_event, waitUntil, woken, nreq>>

\* notify_callback returns
SchedReturn ==
    /\ schedPc = "callback"
    /\ schedPc' = "top"
    /\ Quiet
    /\ UNCHANGED serviceVars
    /\ UNCHANGED hostVars
    /\ UNCHANGED <<now, ev, heap, events_by_id, running, lock, pc, local,
                   next_event, waitUntil, woken, nreq, hist>>

\* ------------------------------------------------------------------ clock
\* time passes
Tick ==
    /\ now < MaxTime
    /\ now' = now + 1
    /\ Quiet
    /\ UNCHANGED serviceVars
    /\ UNCHANGED hostVars
    /\ UNCHANGED <<ev, heap, events_by_id, running, lock, pc, local, schedPc,
                   next_event, waitUntil, woken, nreq, hist>>

\* ------------------------------------------------------------------ system
Next ==
    \/ \E w \in Workers, r \in AddRequests : AddBegin(w, r[1], r[2], r[3])
    \/ \E w \in Workers : AddPush(w)
    \/ \E w \in Workers : AddEnd(w)
    \/ \E w \in Workers, id \in Ids : Cancel(w, id)
    \/ \E w \in Workers : Status(w)
    \/ SchedTop
    \/ SchedWake
    \/ SchedFire
    \/ SchedReturn
    \/ Tick

Spec == Init /\ [][Next]_vars

\* The engine with its threads scheduled fairly: the scheduler thread and a
\* worker inside add get to run (threads that can take the lock eventually do),
\* the notify callback returns, and time passes.  The requests are two adds,
\* one with a group of two and one whose event is overdue at once, and cancel.
LiveAddRequests == {<<"X", "m1", <<2, 1>>>>, <<"Y", "m1", <<-1>>>>}

LiveNext ==
    \/ \E w \in Workers, r \in LiveAddRequests : AddBegin(w, r[1], r[2], r[3])
    \/ \E w \in Workers : AddPush(w)
    \/ \E w \in Workers : AddEnd(w)
    \/ \E w \in Workers, id \in Ids : Cancel(w, id)
    \/ SchedTop
    \/ SchedWake
    \/ SchedFire
    \/ SchedReturn
    \/ Tick

\* the scheduler thread's steps after the head of its loop: waking from
\* condition.wait, calling the callback, returning from it
SchedStep == SchedWake \/ SchedFire \/ SchedReturn

\* SchedTop can happen exactly when the thread is at the head of its loop
\* and can take the lock; every SchedTop step moves schedPc off "top"
SchedTopEnabled == schedPc = "top" /\ LockFree

\* weak fairness of SchedTop, WF_vars(SchedTop), with its enabling
\* condition written out
SchedTopFair == []<>(~SchedTopEnabled) \/ []<><<SchedTop>>_vars

\* the next step of the worker that is inside add (the lock admits one)
AddStep == \E w \in Workers : AddPush(w) \/ AddEnd(w)

LiveSpec ==
    /\ Init
    /\ [][LiveNext]_vars
    /\ SchedTopFair
    /\ WF_vars(SchedStep)
    /\ WF_vars(AddStep)
    /\ WF_vars(Tick)

\* ================================================================== service
\* EscalationService: the session registry, the PID checker, and the main
\* thread's accept loop and shutdown()
SessionIdsOf(S) == {S[i].id : i \in 1..Len(S)}

IndexOfSession(S, sid) == CHOOSE i \in 1..Len(S) : S[i].id = sid

\* faulty variant: a re-registration adds a second record
PutSessionAppend(S, sid, pid, t) ==
    Append(S, [id |-> sid, pid |-> pid, registered_at |-> t])

\* self.sessions[session_id] = {"pid": pid, "registered_at": time.time()}:
\* a key already in the dict keeps its place
PutSession(S, sid, pid, t) ==
    IF sid \in SessionIdsOf(S)
    THEN [S EXCEPT ![IndexOfSession(S, sid)] =
             [id |-> sid, pid |-> pid, registered_at |-> t]]
    ELSE Append(S, [id |-> sid, pid |-> pid, registered_at |-> t])

\* del self.sessions[session_id]
RemoveSessions(S, ids) == SelectSeq(S, LAMBDA r : r.id \notin ids)

\* faulty variant: the session registered last
OldestSessionLast(S) == S[Len(S)].id

\* min(self.sessions.items(), key=registered_at)[0]: the first of the minimal
\* items in dict order
OldestSession(S) ==
    LET i == CHOOSE k \in 1..Len(S) :
                 /\ \A j \in 1..Len(S) : S[k].registered_at <= S[j].registered_at
                 /\ \A j \in 1..(k - 1) : S[k].registered_at < S[j].registered_at
    IN  S[i].id

\* the session unregister_session removes, or None: the id sent if it is
\* registered; otherwise ("elif self.sessions:") the oldest session
UnregisterTarget(S, sid) ==
    IF sid # None /\ sid \in SessionIdsOf(S) THEN sid
    ELSE IF S # <<>> THEN OldestSession(S)
    ELSE None

\* faulty variant: never shut down
ShouldShutdownNever(count) == FALSE

\* "if count == 0: should_shutdown = True"
ShouldShutdown(count) == count = 0

\* _is_pid_alive(pid): os.kill(pid, 0) succeeds
IsPidAlive(pid) == pid \in alive

\* faulty variant: a session without pid counts as dead
DeadSessionsNoPid(S) ==
    {S[i].id : i \in {k \in 1..Len(S) : ~IsPidAlive(S[k].pid)}}

\* _cleanup_dead_sessions: "if pid and not self._is_pid_alive(pid)"
DeadSessions(S) ==
    {S[i].id : i \in {k \in 1..Len(S) :
        S[k].pid # NoPid /\ S[k].pid # 0 /\ ~IsPidAlive(S[k].pid)}}

\* a client's connection is accepted by the accept loop
Accepting == mainPc = "accept"

\* the register_session handler (_handle_command, lines 440-450)
RegisterSession(w, sid, pid) ==
    /\ pc[w] = "idle"
    /\ Accepting
    /\ shist.n + shist.m < MaxSessionRequests
    /\ sessions' = PutSession(sessions, sid, pid, now)
    /\ reply' = [command |-> "register_session", status |-> "ok",
                 session_id |-> sid, session_count |-> Len(sessions')]
    /\ req' = [command |-> "register_session", session_id |-> sid, pid |-> pid,
               before |-> sessions, was_running |-> service_running]
    /\ shist' = [shist EXCEPT !.n = @ + 1,
                   !.added = IF sid \in SessionIdsOf(sessions) THEN @ ELSE @ + 1]
    /\ UNCHANGED <<service_running, alive, mainPc, listening, socket_file>>
    /\ UNCHANGED <<now, engineVars>>
    /\ UNCHANGED hostVars

\* the unregister_session handler (_handle_command, lines 452-470); sid is
\* None for a request without session_id
UnregisterSession(w, sid) ==
    /\ pc[w] = "idle"
    /\ Accepting
    /\ shist.n + shist.m < MaxSessionRequests
    /\ LET target == UnregisterTarget(sessions, sid)
           left == IF target = None THEN sessions
                   ELSE RemoveSessions(sessions, {target})
           count == Len(left)
       IN  /\ sessions' = left
           /\ service_running' = IF ShouldShutdown(count) THEN FALSE
                                  ELSE service_running
           /\ reply' = [command |-> "unregister_session", status |-> "ok",
                        session_id |-> IF target = None THEN sid ELSE target,
                        session_count |-> count,
                        shutting_down |-> ShouldShutdown(count)]
           /\ shist' = [shist EXCEPT !.m = @ + 1,
                          !.removed = IF target = None THEN @ ELSE @ + 1]
    /\ req' = [command |-> "unregister_session", session_id |-> sid,
               pid |-> NoPid, before |-> sessions,
               was_running |-> service_running]
    /\ UNCHANGED <<alive, mainPc, listening, socket_file>>
    /\ UNCHANGED <<now, engineVars>>
    /\ UNCHANGED hostVars

\* the shutdown handler (_handle_command, lines 472-476)
ShutdownCommand(w) ==
    /\ pc[w] = "idle"
    /\ Accepting
    /\ service_running
    /\ service_running' = FALSE
    /\ reply' = [command |-> "shutdown", status |-> "ok"]
    /\ req' = [command |-> "shutdown", session_id |-> None, pid |-> NoPid,
               before |-> sessions, was_running |-> service_running]
    /\ UNCHANGED <<sessions, alive, mainPc, listening, socket_file, shist>>
    /\ UNCHANGED <<now, engineVars>>
    /\ UNCHANGED hostVars

\* signal_handler (lines 524-526): SIGTERM / SIGINT
Signal ==
    /\ service_running
    /\ service_running' = FALSE
    /\ Quiet
    /\ UNCHANGED <<sessions, alive, mainPc, listening, socket_file, shist>>
    /\ UNCHANGED <<now, engineVars>>
    /\ UNCHANGED hostVars

\* a registered process ends
PidExit(p) ==
    /\ p \in alive
    /\ alive' = alive \ {p}
    /\ Quiet
    /\ UNCHANGED <<sessions, service_running, mainPc, listening, socket_file,
                   shist>>
    /\ UNCHANGED <<now, engineVars>>
    /\ UNCHANGED hostVars

\* one turn of the PID checker (lines 290-294) with _cleanup_dead_sessions
\* (lines 271-286); req keeps what the sweep found
CleanupDeadSessions ==
    /\ service_running
    /\ LET dead == DeadSessions(sessions)
       IN  /\ sessions' = RemoveSessions(sessions, dead)
           /\ service_running' = IF sessions' = <<>> /\ dead # {} THEN FALSE
                                  ELSE service_running
           /\ shist' = [shist EXCEPT !.swept = @ \/ dead # {}]
    /\ reply' = NoReply
    /\ req' = [command |-> "sweep", session_id |-> None, pid |-> NoPid,
               before |-> sessions, was_running |-> service_running]
    /\ UNCHANGED <<alive, mainPc, listening, socket_file>>
    /\ UNCHANGED <<now, engineVars>>
    /\ UNCHANGED hostVars

\* (variant) a loop that never reads the flag again
AcceptLoopConditionStale == TRUE

\* start, line 533: the condition of "while self.running", read again after
\* every accept() or its 1 s timeout
AcceptLoopCondition == service_running

\* start, lines 533 and 547-548: "while self.running" ends, shutdown() begins
AcceptLoopExit ==
    /\ mainPc = "accept"
    /\ ~AcceptLoopCondition
    /\ mainPc' = "engine_shutdown"
    /\ Quiet
    /\ UNCHANGED <<sessions, service_running, alive, listening, socket_file,
                   shist>>
    /\ UNCHANGED <<now, engineVars>>
    /\ UNCHANGED hostVars

\* EscalationService.shutdown, lines 554-555: EscalationScheduler.shutdown
\* (lines 132-136) under the engine's lock
EngineShutdown ==
    /\ mainPc = "engine_shutdown"
    /\ LockFree
    /\ running' = FALSE
    /\ woken' = Notify
    /\ mainPc' = "join"
    /\ Quiet
    /\ UNCHANGED <<sessions, service_running, alive, listening, socket_file,
                   shist>>
    /\ UNCHANGED <<now, ev, heap, events_by_id, lock, pc, local, schedPc,
                   next_event, waitUntil, nreq, hist>>
    /\ UNCHANGED hostVars

\* EscalationScheduler.shutdown, line 137: self.thread.join(timeout=5) returns,
\* the thread ended or not; then server_socket.close() (lines 557-558)
CloseSocket ==
    /\ mainPc = "join"
    /\ listening' = FALSE
    /\ mainPc' = "unlink"
    /\ Quiet
    /\ UNCHANGED <<sessions, service_running, alive, socket_file, shist>>
    /\ UNCHANGED <<now, engineVars>>
    /\ UNCHANGED hostVars

\* EscalationService.shutdown, lines 560-563: socket_path.unlink()
UnlinkSocket ==
    /\ mainPc = "unlink"
    /\ socket_file' = FALSE
    /\ mainPc' = "done"
    /\ Quiet
    /\ UNCHANGED <<sessions, service_running, alive, listening, shist>>
    /\ UNCHANGED <<now, engineVars>>
    /\ UNCHANGED hostVars

\* the daemon seen by its session clients: registry requests, status, the PID
\* checker, the signals, and the main thread
ServiceNext ==
    \/ \E w \in Workers, sid \in SessionIds, pid \in Pids :
           RegisterSession(w, sid, pid)
    \/ \E w \in Workers, sid \in SessionIds \cup {None} :
           UnregisterSession(w, sid)
    \/ \E w \in Workers : ShutdownCommand(w)
    \/ \E w \in Workers : Status(w)
    \/ Signal
    \/ \E p \in Pids \ {NoPid} : PidExit(p)
    \/ CleanupDeadSessions
    \/ AcceptLoopExit
    \/ EngineShutdown
    \/ CloseSocket
    \/ UnlinkSocket
    \/ Tick

ServiceSpec == Init /\ [][ServiceNext]_vars

\* The daemon with its main thread scheduled: the thread is never blocked for
\* good (accept() times out after 1 s, the engine's lock is released by its
\* holder, join() has a timeout), so its next step is eventually taken.  One
\* session id and one pid are enough here.
TermNext ==
    \/ \E w \in Workers, pid \in {NoPid, 1} : RegisterSession(w, "A", pid)
    \/ \E w \in Workers, sid \in {"A", None} : UnregisterSession(w, sid)
    \/ \E w \in Workers : ShutdownCommand(w)
    \/ Signal
    \/ PidExit(1)
    \/ CleanupDeadSessions
    \/ AcceptLoopExit
    \/ EngineShutdown
    \/ CloseSocket
    \/ UnlinkSocket
    \/ Tick

\* the main thread's next step
MainStep == AcceptLoopExit \/ EngineShutdown \/ CloseSocket \/ UnlinkSocket

TermSpec == Init /\ [][TermNext]_vars /\ WF_vars(MainStep)

\* ------------------------------------------------------------------ failing add
\* The handler passes cmd.get("delays") on as it is (line 410), so an element
\* of delays can be any JSON value.  An element that cannot be added to a
\* timestamp (a string, null, a list) is written as this value.
NonNumericDelay == -99

FailRequests ==
    {<<"X", "m1", <<1, NonNumericDelay>>>>, <<"X", "m2", <<2, 1>>>>,
     <<"Y", "m1", <<1>>>>}

\* add, lines 85-94, for an element that is a number
AddPushNumber(w) ==
    /\ pc[w] = "add_push"
    /\ Head(local[w].delays) # NonNumericDelay
    /\ AddPush(w)

\* add, line 88: now + delay raises TypeError inside "with self.condition":
\* the lock is released, lines 93-97 are not reached for this and the
\* following elements, and _handle_client (490-491) logs the exception and
\* sends no reply
AddRaises(w) ==
    /\ pc[w] = "add_push"
    /\ Head(local[w].delays) = NonNumericDelay
    /\ lock' = IF lock = w THEN None ELSE lock
    /\ local' = [local EXCEPT ![w] = NoLocal]
    /\ pc' = [pc EXCEPT ![w] = "idle"]
    /\ reply' = NoReply
    /\ req' = [command |-> "add_failed", id |-> local[w].id,
               events |-> local[w].events]
    /\ hist' = [hist EXCEPT !.recent = <<>>, !.hollow = @ \ {local[w].id}]
    /\ UNCHANGED serviceVars
    /\ UNCHANGED hostVars
    /\ UNCHANGED <<now, ev, heap, events_by_id, running, schedPc, next_event,
                   waitUntil, woken, nreq>>

FailNext ==
    \/ \E w \in Workers, r \in FailRequests : AddBegin(w, r[1], r[2], r[3])
    \/ \E w \in Workers : AddPushNumber(w)
    \/ \E w \in Workers : AddRaises(w)
    \/ \E w \in Workers : AddEnd(w)
    \/ \E w \in Workers, id \in Ids : Cancel(w, id)
    \/ \E w \in Workers : Status(w)
    \/ SchedTop
    \/ SchedWake
    \/ SchedFire
    \/ SchedReturn
    \/ Tick

FailSpec == Init /\ [][FailNext]_vars

\* ------------------------------------------------------------------ locks
\* The lock statements of the daemon's threads.  Each operation is the list
\* of its "with" blocks in program order: taking and releasing the
\* scheduler's lock (self.lock, also entered as self.condition) and the
\* registry's lock (self.session_lock).

Operations ==
    [w \in Workers |-> {"add", "cancel", "status", "register_session",
                        "unregister_session"}]
    @@ [t \in {"scheduler"} |-> {"run"}]
    @@ [t \in {"checker"} |-> {"sweep"}]
    @@ [t \in {"main"} |-> {"shutdown"}]

SchedulerLock == <<"acquire lock", "release lock">>

SessionLock == <<"acquire session_lock", "release session_lock">>

\* (variant) status reads the registry inside the scheduler's lock
LockStatementsNested(op) ==
    IF op = "status"
    THEN <<"acquire lock", "acquire session_lock", "release session_lock",
           "release lock">>
    ELSE SchedulerLock

\* add 78-97, cancel 101-102, status 115-130 then 424-432, register_session
\* 443-448, unregister_session 455-465, _cleanup_dead_sessions 273-286,
\* EscalationScheduler.shutdown 134-136; _run 153-179 with a condition.wait
\* (163, 171: the lock is released and taken again), then the callback's
\* _is_session_busy 246-250 outside the lock
LockStatements(op) ==
    CASE op \in {"add", "cancel", "shutdown"} -> SchedulerLock
      [] op = "status" -> SchedulerLock \o SessionLock
      [] op \in {"register_session", "unregister_session", "sweep"} -> SessionLock
      [] op = "run" -> SchedulerLock \o SchedulerLock \o SessionLock

\* the lock statement thread t is at
NextStatement(t) == LockStatements(thr[t].op)[thr[t].done + 1]

Passed(t) ==
    IF thr[t].done + 1 = Len(LockStatements(thr[t].op))
    THEN NoOperation
    ELSE [thr[t] EXCEPT !.done = @ + 1]

NoEngineStep ==
    UNCHANGED <<now, ev, heap, events_by_id, running, pc, local, schedPc,
                next_event, waitUntil, woken, nreq, hist, reply, req,
                serviceVars, path, daemons, clients, lockfile, notified, ctl>>

\* thread t begins operation op
Call(t, op) ==
    /\ thr[t] = NoOperation
    /\ thr' = [thr EXCEPT ![t] = [op |-> op, done |-> 0]]
    /\ NoEngineStep
    /\ UNCHANGED <<lock, session_lock>>

\* "with self.condition:" / "with self.lock:" / "with self.session_lock:" is
\* entered: the thread blocks until the lock is free
Acquire(t) ==
    /\ thr[t] # NoOperation
    /\ \/ /\ NextStatement(t) = "acquire lock"
          /\ LockFree
          /\ lock' = t
          /\ UNCHANGED session_lock
       \/ /\ NextStatement(t) = "acquire session_lock"
          /\ session_lock = None
          /\ session_lock' = t
          /\ UNCHANGED lock
    /\ thr' = [thr EXCEPT ![t] = Passed(t)]
    /\ NoEngineStep

\* the "with" block is left
Release(t) ==
    /\ thr[t] # NoOperation
    /\ \/ /\ NextStatement(t) = "release lock"
          /\ lock' = None
          /\ UNCHANGED session_lock
       \/ /\ NextStatement(t) = "release session_lock"
          /\ session_lock' = None
          /\ UNCHANGED lock
    /\ thr' = [thr EXCEPT ![t] = Passed(t)]
    /\ NoEngineStep

LockNext ==
    \/ \E t \in Threads : \E op \in Operations[t] : Call(t, op)
    \/ \E t \in Threads : Acquire(t)
    \/ \E t \in Threads : Release(t)

LockSpec == Init /\ [][LockNext]_vars

\* The engine of a daemon that is told to stop: adds go on arriving, the
\* scheduler thread runs, and the main thread, after a signal, leaves the
\* accept loop and calls EscalationScheduler.shutdown.  The threads that can
\* run eventually do.
StopNext ==
    \/ \E w \in Workers, r \in LiveAddRequests : AddBegin(w, r[1], r[2], r[3])
    \/ \E w \in Workers : AddPush(w)
    \/ \E w \in Workers : AddEnd(w)
    \/ SchedTop
    \/ SchedWake
    \/ SchedFire
    \/ SchedReturn
    \/ Signal
    \/ AcceptLoopExit
    \/ EngineShutdown
    \/ Tick

StopSpec ==
    /\ Init
    /\ [][StopNext]_vars
    /\ SchedTopFair
    /\ WF_vars(SchedStep)
    /\ WF_vars(AddStep)

\* ------------------------------------------------------------------ notifier
\* The scheduler's callback, EscalationService._send_notification (lines
\* 329-359), with the busy check _is_session_busy (lines 236-269).  What
\* psutil reports for a pid and how the po_notify subprocess ends are not
\* decided by the daemon: both are inputs of the step.

\* psutil's answer for a process: busy (cpu above 10 or children), idle, or
\* an error (NoSuchProcess, AccessDenied, ZombieProcess; no psutil at all)
Probes == {"busy", "idle", "error"}

\* subprocess.run(po_notify ...): exit 0, non-zero exit (CalledProcessError),
\* TimeoutExpired, or no such program (FileNotFoundError)
Outcomes == {"ok", "failed", "timeout", "notfound"}

\* the requests of the notifier scenarios: the two-stage group of scenario S2
\* and a group with the default delays under another id
NotifyRequests ==
    {<<"S2", "hi", <<1, 2>>>>, <<"T", "m1", <<60, 3600>>>>}

\* (variant) busy whenever the session's process is, pid or not
IsSessionBusyAnyId(S, id, probe) == S # <<>> /\ probe = "busy"

\* _is_session_busy: self.sessions.get(session_id), "not session or not
\* session.get('pid')", then the probe of the process
IsSessionBusy(S, id, probe) ==
    IF id \notin SessionIdsOf(S) THEN FALSE
    ELSE IF S[IndexOfSession(S, id)].pid = NoPid THEN FALSE
    ELSE probe = "busy"

\* (variant) every notification is sent as the one-hour reminder
NotifierCommandUrgent(e) ==
    [title |-> "Claude Permission (1hr)",
     message |-> e.message,
     priority |-> 2,
     extra |-> <<"--retry", "60", "--expire", "3600">>]

\* _send_notification, lines 336-345: the po_notify command line
NotifierCommand(e) ==
    [title |-> IF e.priority < 2 THEN "Claude Permission"
               ELSE "Claude Permission (1hr)",
     message |-> e.message,
     priority |-> e.priority,
     extra |-> IF e.priority = 2 THEN <<"--retry", "60", "--expire", "3600">>
               ELSE <<>>]

\* (variant) a failed notification is put back on the heap
HeapAfterNotifierRetry(E, h, e, outcome) ==
    IF outcome = "ok" THEN h ELSE HeapPush(E, h, e)

\* _send_notification, lines 342-359: every exception of subprocess.run is
\* logged; nothing is scheduled again
HeapAfterNotifier(E, h, e, outcome) == h

\* notify_callback (_run, lines 182-187) = _send_notification, outside the
\* engine's lock
SendNotification(probe, outcome) ==
    /\ schedPc = "callback"
    /\ LET e == ev[next_event]
           busy == IsSessionBusy(sessions, e.escalation_id, probe)
       IN  /\ notified' = Append(notified,
                  [event |-> next_event, invoked |-> ~busy,
                   cmd |-> NotifierCommand(e),
                   failed |-> ~busy /\ outcome # "ok"])
           /\ heap' = HeapAfterNotifier(ev, heap, next_event,
                                        IF busy THEN "ok" ELSE outcome)
           /\ req' = [command |-> "notify", event |-> next_event,
                      probe |-> probe, outcome |-> outcome,
                      sessions |-> sessions,
                      before |-> [ev |-> ev, heap |-> heap,
                                  events_by_id |-> events_by_id]]
    /\ (probe # "busy" \/ outcome = "ok")
    /\ schedPc' = "top"
    /\ reply' = NoReply
    /\ UNCHANGED serviceVars
    /\ UNCHANGED <<path, daemons, clients, lockfile, ctl, session_lock, thr>>
    /\ UNCHANGED <<now, ev, events_by_id, running, lock, pc, local,
                   next_event, waitUntil, woken, nreq, hist>>

\* time passes until the next event in the heap is due
Advance ==
    /\ \E e \in InHeap(heap) : ev[e].fire_time > now
    /\ now' = Min({ev[e].fire_time : e \in {f \in InHeap(heap) : ev[f].fire_time > now}})
    /\ Quiet
    /\ UNCHANGED <<engineVars, serviceVars, hostVars>>

\* the first session registers
FirstSession(w, sid, pid) == sessions = <<>> /\ RegisterSession(w, sid, pid)

\* the engine with its callback, a session registered under an escalation
\* id, and the clock
NotifyNext ==
    \/ \E w \in Workers, r \in NotifyRequests : AddBegin(w, r[1], r[2], r[3])
    \/ \E w \in Workers : AddPush(w)
    \/ \E w \in Workers : AddEnd(w)
    \/ \E w \in Workers, pid \in {NoPid, 1} : FirstSession(w, "S2", pid)
    \/ SchedTop
    \/ SchedWake
    \/ SchedFire
    \/ \E probe \in Probes, outcome \in Outcomes : SendNotification(probe, outcome)
    \/ Advance

NotifySpec == Init /\ [][NotifyNext]_vars

\* The same with requests as they come off the socket: the handler passes
\* cmd.get("message") on as it is (line 409), so a message can be any JSON
\* value.  A JSON number is written as this value.
NumberMessage == "5 (a JSON number)"

IsString(m) == m # NumberMessage

WorkerRequests == {<<"S2", "hi", <<1, 2>>>>, <<"T", NumberMessage, <<1, 2>>>>}

\* _send_notification reaches line 340, message[:50], outside its try:
\* not busy, and the message is not a string
RaisesInCallback(probe) ==
    LET e == ev[next_event]
    IN  /\ ~IsSessionBusy(sessions, e.escalation_id, probe)
        /\ ~IsString(e.message)

\* _run, lines 182-187: the callback raises (TypeError); _run has no
\* handler, so the exception ends the scheduler thread
CallbackRaises(probe) ==
    /\ schedPc = "callback"
    /\ RaisesInCallback(probe)
    /\ schedPc' = "dead"
    /\ Quiet
    /\ UNCHANGED serviceVars
    /\ UNCHANGED hostVars
    /\ UNCHANGED <<now, ev, heap, events_by_id, running, lock, pc, local,
                   next_event, waitUntil, woken, nreq, hist>>

\* the callback returns
CallbackReturns(probe, outcome) ==
    /\ schedPc = "callback"
    /\ ~RaisesInCallback(probe)
    /\ SendNotification(probe, outcome)

WorkerNext ==
    \/ \E w \in Workers, r \in WorkerRequests : AddBegin(w, r[1], r[2], r[3])
    \/ \E w \in Workers : AddPush(w)
    \/ \E w \in Workers : AddEnd(w)
    \/ \E w \in Workers, pid \in {NoPid, 1} : FirstSession(w, "T", pid)
    \/ SchedTop
    \/ SchedWake
    \/ SchedFire
    \/ \E probe \in Probes, outcome \in Outcomes : CallbackReturns(probe, outcome)
    \/ \E probe \in Probes : CallbackRaises(probe)
    \/ Advance

WorkerSpec == Init /\ [][WorkerNext]_vars

\* ------------------------------------------------------------------ rpc server
\* One client connection: _handle_client (lines 481-494) reads one frame with
\* _recv_message (lines 371-390), hands a message to _handle_command
\* (lines 402-479) and sends its response.  A frame is what the client put on
\* the wire: the length its 4-byte prefix declares, the number of body bytes
\* that arrived before it closed, whether the body is JSON, and the JSON
\* object the body encodes.

\* a JSON object without members
EmptyObject == [k \in {} |-> ""]

ShutdownObject == [command |-> "shutdown"]

StatusObject == [command |-> "status"]

\* the frames clients send
FrameList ==
    << [len |-> 2, got |-> 2, json |-> TRUE, body |-> EmptyObject],
       [len |-> 21, got |-> 21, json |-> TRUE, body |-> StatusObject],
       [len |-> 44, got |-> 44, json |-> TRUE,
        body |-> [command |-> "cancel", escalation_id |-> "X"]],
       [len |-> 41, got |-> 41, json |-> TRUE,
        body |-> [command |-> "cancel", session_id |-> "X"]],
       [len |-> 78, got |-> 78, json |-> TRUE,
        body |-> [command |-> "add", escalation_id |-> "X", message |-> "m1",
                  delays |-> <<2, 1>>]],
       [len |-> 60, got |-> 60, json |-> TRUE,
        body |-> [command |-> "register_session", session_id |-> "A", pid |-> 1]],
       [len |-> 33, got |-> 33, json |-> TRUE,
        body |-> [command |-> "unregister_session"]],
       [len |-> 23, got |-> 23, json |-> TRUE, body |-> ShutdownObject],
       [len |-> 20, got |-> 20, json |-> TRUE, body |-> [command |-> "bogus"]],
       [len |-> 22, got |-> 22, json |-> TRUE, body |-> [escalation_id |-> "X"]],
       [len |-> MaxMessageSize, got |-> MaxMessageSize, json |-> TRUE,
        body |-> StatusObject],
       [len |-> MaxMessageSize + 1, got |-> MaxMessageSize + 1, json |-> TRUE,
        body |-> ShutdownObject],
       [len |-> 23, got |-> 7, json |-> TRUE, body |-> ShutdownObject],
       [len |-> 23, got |-> 23, json |-> FALSE, body |-> ShutdownObject] >>

Frames == 1..Len(FrameList)

\* cmd.get(key, default)
Get(obj, key, default) == IF key \in DOMAIN obj THEN obj[key] ELSE default

\* cmd.get("escalation_id") or cmd.get("session_id", default)
EscalationIdOf(cmd, default) ==
    IF Get(cmd, "escalation_id", "") # "" THEN cmd["escalation_id"]
    ELSE Get(cmd, "session_id", default)

\* (variant) _recv_message without the size limit
RecvMessageNoLimit(f) ==
    IF f.got < f.len \/ ~f.json THEN [ok |-> FALSE, value |-> EmptyObject]
    ELSE [ok |-> TRUE, value |-> f.body]

\* _recv_message, lines 371-390: None for a length above 1 MiB, for a body
\* that ends early (_recv_exact returns None) and for a body json.loads
\* rejects; else the decoded message
RecvMessage(f) ==
    IF f.len > MaxMessageSize THEN [ok |-> FALSE, value |-> EmptyObject]
    ELSE IF f.got < f.len THEN [ok |-> FALSE, value |-> EmptyObject]
    ELSE IF ~f.json THEN [ok |-> FALSE, value |-> EmptyObject]
    ELSE [ok |-> TRUE, value |-> f.body]

\* _handle_client, line 485: "if msg:" - a dict is true unless it is empty
Truthy(msg) == msg.ok /\ DOMAIN msg.value # {}

\* what a connection can change in the daemon
Snapshot ==
    [ev |-> ev, heap |-> heap, events_by_id |-> events_by_id,
     sessions |-> sessions, service_running |-> service_running,
     lock |-> lock, pc |-> pc]

\* _handle_client, lines 485 and 492-493: no message, nothing is sent, the
\* connection is closed
DropConnection(w, i) ==
    /\ pc[w] = "idle"
    /\ reply' = NoReply
    /\ req' = [command |-> "frame", frame |-> i, before |-> Snapshot]
    /\ UNCHANGED <<now, engineVars, serviceVars, hostVars>>

\* _handle_command, lines 478-479: the else branch
UnknownCommand(w, i, command) ==
    /\ pc[w] = "idle"
    /\ reply' = [command |-> "unknown", status |-> "error",
                 message |-> "unknown command: " \o command]
    /\ req' = [command |-> "frame", frame |-> i, before |-> Snapshot]
    /\ UNCHANGED <<now, engineVars, serviceVars, hostVars>>

\* _handle_command, lines 405-479: the branch for cmd's command
HandleCommand(w, i, cmd) ==
    LET command == Get(cmd, "command", "")
    IN  CASE command = "add" ->
                 AddBegin(w, EscalationIdOf(cmd, "unknown"),
                          Get(cmd, "message", "Awaiting permission"),
                          Get(cmd, "delays", <<60, 3600>>))
          [] command = "cancel" -> Cancel(w, EscalationIdOf(cmd, ""))
          [] command = "status" -> Status(w)
          [] command = "register_session" ->
                 RegisterSession(w, cmd["session_id"], Get(cmd, "pid", NoPid))
          [] command = "unregister_session" ->
                 UnregisterSession(w, Get(cmd, "session_id", None))
          [] command = "shutdown" -> ShutdownCommand(w)
          [] OTHER -> UnknownCommand(w, i, command)

\* _handle_client, lines 481-494, for the connection carrying frame i
HandleClient(w, i) ==
    /\ Accepting
    /\ LET msg == RecvMessage(FrameList[i])
       IN  IF Truthy(msg)
           THEN HandleCommand(w, i, msg.value)
           ELSE DropConnection(w, i)

\* the daemon seen from its socket: connections, and the workers inside add
RpcNext ==
    \/ \E w \in Workers, i \in Frames : HandleClient(w, i)
    \/ \E w \in Workers : AddPush(w)
    \/ \E w \in Workers : AddEnd(w)

RpcSpec == Init /\ [][RpcNext]_vars

\* ------------------------------------------------------------------ control CLI
\* escalation_ctl (plugins/pushover/scripts/service/escalation_ctl.py and
\* hooks-tool/service/escalation_ctl.py) run against the daemon: is_running(),
\* the RPC served by the daemon's handlers, and the value main() hands to
\* sys.exit.

CtlCommands == {"start", "stop", "status", "add", "cancel", "register",
                "unregister"}

\* the commands that begin with "if not client.is_running(): return"
ProbeFirst == {"stop", "status", "cancel", "unregister"}

\* the calls cmd_register and cmd_unregister make with keyword arguments the
\* client's register_session(self) / unregister_session(self) do not take
\* (escalation_client.py, lines 203 and 211): TypeError
Raises == {"register", "unregister"}

\* --delays of the add command: not given, or 5,30
CtlDelays == {<<60, 3600>>, <<5, 30>>}

\* EscalationClient.is_running against this daemon: connect() succeeds while
\* the server socket is open
ServiceIsRunning == listening

\* "result and result.get("status") == "ok""
ResultOk(result) == Truthy(result) /\ Get(result.value, "status", None) = "ok"

\* cmd_start, lines 45-57
CmdStart(up, started) == IF up \/ started THEN 0 ELSE 1

\* cmd_stop, lines 60-73
CmdStop(up, result) == IF ~up THEN 0 ELSE IF ResultOk(result) THEN 0 ELSE 1

\* cmd_status, lines 76-114
CmdStatus(up, result) == IF ~up THEN 1 ELSE IF ~Truthy(result) THEN 1 ELSE 0

\* cmd_add, lines 154-168
CmdAdd(result) == IF ResultOk(result) THEN 0 ELSE 1

\* cmd_cancel, lines 171-186: "cancelled" chooses the text printed, not the
\* value returned
CmdCancel(up, result) == IF ~up THEN 1 ELSE IF ResultOk(result) THEN 0 ELSE 1

\* an uncaught exception ends the interpreter with status 1
Uncaught == 1

\* the value returned by the command's function for an RPC that ended with
\* result
ExitOf(command, up, result) ==
    CASE command = "stop" -> CmdStop(up, result)
      [] command = "status" -> CmdStatus(up, result)
      [] command = "cancel" -> CmdCancel(up, result)
      [] command = "add" -> CmdAdd(result)

\* sys.exit(main())
CtlReturn(command, id, up, result, raised, code) ==
    ctl' = [pc |-> "done", command |-> command, id |-> id, up |-> up,
            result |-> result, raised |-> raised, exit |-> code]

\* start_service_if_needed spawned a daemon and it answers: a new process,
\* with EscalationService.__init__'s state
Respawn ==
    /\ ev' = <<>>
    /\ heap' = <<>>
    /\ events_by_id' = <<>>
    /\ running' = TRUE
    /\ lock' = None
    /\ pc' = [w \in Workers |-> "idle"]
    /\ local' = [w \in Workers |-> NoLocal]
    /\ schedPc' = "top"
    /\ next_event' = 0
    /\ waitUntil' = -1
    /\ woken' = FALSE
    /\ hist' = [fired |-> <<>>, doomed |-> {}, info |-> <<>>, recent |-> <<>>,
                hollow |-> {}]
    /\ sessions' = <<>>
    /\ service_running' = TRUE
    /\ mainPc' = "accept"
    /\ listening' = TRUE
    /\ socket_file' = TRUE
    /\ shist' = [n |-> 0, m |-> 0, added |-> 0, removed |-> 0, swept |-> FALSE]
    /\ UNCHANGED <<now, nreq, alive>>

SameDaemon == UNCHANGED <<now, engineVars, serviceVars>>

\* main, lines 230-243, up to the RPC: the command's function begins. For
\* the commands that start the service, started is what
\* start_service_if_needed returns when the service is down; they are run
\* once the old process is gone.
CtlBegin(command, id, started) ==
    /\ ctl.pc # "call"
    /\ Quiet
    /\ UNCHANGED <<path, daemons, clients, lockfile, notified, session_lock, thr>>
    /\ LET up == ServiceIsRunning
       IN  IF command \in ProbeFirst
           THEN /\ SameDaemon
                /\ IF ~up
                   THEN CtlReturn(command, id, up, NoResult, FALSE,
                                  IF command = "unregister" THEN 1
                                  ELSE ExitOf(command, up, NoResult))
                   ELSE IF command \in Raises
                   THEN CtlReturn(command, id, up, NoResult, TRUE, Uncaught)
                   ELSE ctl' = [CtlIdle EXCEPT !.pc = "call", !.command = command,
                                               !.id = id, !.up = up]
           ELSE /\ ~up => mainPc = "done"
                /\ IF ~up /\ started THEN Respawn ELSE SameDaemon
                /\ CASE command = "start" ->
                            CtlReturn(command, id, up, NoResult, FALSE,
                                      CmdStart(up, started))
                     [] command = "register" ->
                            IF up \/ started
                            THEN CtlReturn(command, id, up, NoResult, TRUE, Uncaught)
                            ELSE CtlReturn(command, id, up, NoResult, FALSE, 1)
                     [] command = "add" ->
                            IF up \/ started
                            THEN ctl' = [CtlIdle EXCEPT !.pc = "call",
                                                        !.command = command,
                                                        !.id = id, !.up = up]
                            ELSE CtlReturn(command, id, up, NoResult, FALSE,
                                           CmdAdd(NoResult))

\* the daemon serves the connection of the waiting escalation_ctl
CtlServe(w) ==
    /\ ctl.pc = "call"
    /\ reply = NoReply
    /\ \A v \in Workers : pc[v] = "idle"
    /\ Accepting
    /\ CASE ctl.command = "cancel" -> Cancel(w, ctl.id)
         [] ctl.command = "status" -> Status(w)
         [] ctl.command = "stop" -> ShutdownCommand(w)
         [] ctl.command = "add" ->
                \E ds \in CtlDelays : AddBegin(w, ctl.id, "m1", ds)

\* send_command returned the daemon's reply
CtlExit ==
    /\ ctl.pc = "call"
    /\ reply # NoReply
    /\ LET result == [ok |-> TRUE, value |-> reply]
       IN  CtlReturn(ctl.command, ctl.id, ctl.up, result, FALSE,
                     ExitOf(ctl.command, ctl.up, result))
    /\ UNCHANGED <<reply, req, path, daemons, clients, lockfile, notified,
                   session_lock, thr>>
    /\ SameDaemon

\* connect or send_command returned None: no connection, no reply in time,
\* or the connection was closed
CtlLost ==
    /\ ctl.pc = "call"
    /\ \A v \in Workers : pc[v] = "idle"
    /\ CtlReturn(ctl.command, ctl.id, ctl.up, NoResult, FALSE,
                 ExitOf(ctl.command, ctl.up, NoResult))
    /\ Quiet
    /\ UNCHANGED <<path, daemons, clients, lockfile, notified, session_lock, thr>>
    /\ SameDaemon

\* the main thread of the daemon, between the runs of escalation_ctl
CtlDaemonStep == ctl.pc # "call" /\ MainStep

CtlNext ==
    \/ \E command \in CtlCommands, id \in Ids, started \in BOOLEAN :
           CtlBegin(command, id, started)
    \/ \E w \in Workers : CtlServe(w)
    \/ \E w \in Workers : AddPush(w)
    \/ \E w \in Workers : AddEnd(w)
    \/ CtlExit
    \/ CtlLost
    \/ CtlDaemonStep

CtlSpec == Init /\ [][CtlNext]_vars

\* ------------------------------------------------------------------ startup
\* Daemon processes started on one socket path (main, start, _cleanup_socket).
\* Every file-system call of start() is a step of its own: between two of them
\* another process can change what the path names.  path is "absent", or
\* "notsocket", or the daemon whose bind() created the socket file.

InStartup == {"exists", "stat", "probe", "unlink", "bind", "chmod", "listen"}

\* the process is not inside start()'s set-up: not launched, serving, or gone
Settled(d) == daemons[d].pc \notin InStartup

Quiescent == \A d \in Daemons : Settled(d)

\* the daemon is in its accept loop
Serving(d) == daemons[d].pc = "serving"

\* (variant) a probe that no listener answers
ConnectRefusedAlways(p) == FALSE

\* test_sock.connect (line 318) succeeds: the path names a socket whose
\* owner listens; a socket file of a process that has not called listen()
\* yet, or is gone, refuses
ConnectSucceeds(p) == p \in Daemons /\ Serving(p)

\* the processes after daemon d moved to position next
Moved(d, next, unl) ==
    [daemons EXCEPT ![d] = [pc |-> next, unlinked |-> @.unlinked \/ unl]]

\* one step of daemon d's start(): its new position, the path it leaves,
\* and whether it unlinked
StartStep(d, step, next, newpath, unl) ==
    /\ daemons' = Moved(d, next, unl)
    /\ path' = newpath
    /\ UNCHANGED <<clients, lockfile, notified, ctl, session_lock, thr>>
    /\ req' = [command |-> "start", daemon |-> d, step |-> step,
               before |-> path, live |-> {e \in Daemons : Serving(e)}]
    /\ reply' = NoReply
    /\ UNCHANGED <<now, engineVars, serviceVars>>

\* main (lines 581-582): the process is started and enters start()
Launch(d) ==
    /\ daemons[d].pc = "idle"
    /\ StartStep(d, "launch", "exists", path, FALSE)

\* _cleanup_socket, line 302: if self.socket_path.exists()
ExistsCheck(d) ==
    /\ daemons[d].pc = "exists"
    /\ StartStep(d, "exists", IF path = "absent" THEN "bind" ELSE "stat",
                 path, FALSE)

\* _cleanup_socket, lines 305-312: stat and S_ISSOCK; OSError and a file
\* that is no socket both end in sys.exit(1)
StatCheck(d) ==
    /\ daemons[d].pc = "stat"
    /\ StartStep(d, "stat",
                 IF path = "absent" THEN "exit_stat"
                 ELSE IF path = "notsocket" THEN "exit_notsocket"
                 ELSE "probe",
                 path, FALSE)

\* _cleanup_socket, lines 315-322: the test connect; success is sys.exit(1),
\* every OSError leads to the unlink
Probe(d) ==
    /\ daemons[d].pc = "probe"
    /\ StartStep(d, "probe",
                 IF ConnectSucceeds(path) THEN "exit_live" ELSE "unlink",
                 path, FALSE)

\* _cleanup_socket, line 325: self.socket_path.unlink(); on a missing path
\* FileNotFoundError leaves start() uncaught
Unlink(d) ==
    /\ daemons[d].pc = "unlink"
    /\ IF path = "absent"
       THEN StartStep(d, "unlink", "crash", path, FALSE)
       ELSE StartStep(d, "unlink", "bind", "absent", TRUE)

\* start, line 509: server_socket.bind creates the socket file; on an
\* existing path OSError (address in use) leaves start() uncaught
Bind(d) ==
    /\ daemons[d].pc = "bind"
    /\ IF path = "absent"
       THEN StartStep(d, "bind", "chmod", d, FALSE)
       ELSE StartStep(d, "bind", "crash", path, FALSE)

\* start, line 512: os.chmod(self.socket_path, 0o600)
Chmod(d) ==
    /\ daemons[d].pc = "chmod"
    /\ StartStep(d, "chmod", IF path = "absent" THEN "crash" ELSE "listen",
                 path, FALSE)

\* start, lines 514-517: listen(5), running = True, the accept loop
Listen(d) ==
    /\ daemons[d].pc = "listen"
    /\ StartStep(d, "listen", "serving", path, FALSE)

\* a serving daemon is killed and cleans nothing up: its socket file stays
Kill(d) ==
    /\ Serving(d)
    /\ StartStep(d, "kill", "dead", path, FALSE)

\* some other program creates a regular file at the free path
PlaceFile ==
    /\ path = "absent"
    /\ path' = "notsocket"
    /\ Quiet
    /\ UNCHANGED <<daemons, clients, lockfile, notified, ctl, session_lock, thr>>
    /\ UNCHANGED <<now, engineVars, serviceVars>>

\* the steps of a daemon inside start()
StartUp(d) ==
    \/ ExistsCheck(d)
    \/ StatCheck(d)
    \/ Probe(d)
    \/ Unlink(d)
    \/ Bind(d)
    \/ Chmod(d)
    \/ Listen(d)

\* the first daemon is killed before any other is started: the others find
\* its socket file
KillFirst(d) ==
    /\ \A e \in Daemons \ {d} : daemons[e].pc = "idle"
    /\ Kill(d)

\* daemons started at any time, also while others are starting, on a path
\* that is absent or names the socket file of a killed daemon
StartNext ==
    \/ \E d \in Daemons : Launch(d)
    \/ \E d \in Daemons : StartUp(d)
    \/ \E d \in Daemons : KillFirst(d)

StartSpec == Init /\ [][StartNext]_vars

\* one daemon started at a time: nothing else touches the path while a
\* daemon is inside start()
SeqLaunch(d) == Quiescent /\ Launch(d)

SeqKill(d) == Quiescent /\ Kill(d)

SeqPlaceFile == Quiescent /\ PlaceFile

StartSeqNext ==
    \/ \E d \in Daemons : SeqLaunch(d)
    \/ \E d \in Daemons : StartUp(d)
    \/ \E d \in Daemons : SeqKill(d)
    \/ SeqPlaceFile

StartSeqSpec == Init /\ [][StartSeqNext]_vars

\* ------------------------------------------------------------------ client start
\* EscalationClient.start_service_if_needed (escalation_client.py 95-149),
\* run by several client processes.  is_running() is one connect to the
\* socket path.  The daemon a client spawns goes through start() at its own
\* pace; the client polls it for 2 s and then gives up.

\* is_running (lines 87-93): connect(timeout=2, retries=0) succeeds
IsRunning == ConnectSucceeds(path)

\* fcntl.flock(LOCK_EX | LOCK_NB) (line 111) succeeds
Flock(c) == lockfile = None

\* the daemons spawned so far
Spawned == {d \in Daemons : daemons[d].pc # "idle"}

ClientStep(c, next, lk) ==
    /\ clients' = [clients EXCEPT ![c] = next]
    /\ lockfile' = lk
    /\ UNCHANGED <<notified, ctl, session_lock, thr>>
    /\ Quiet
    /\ UNCHANGED <<now, engineVars, serviceVars>>

\* lines 101-102: the first probe
FirstProbe(c) ==
    /\ clients[c] = "idle"
    /\ ClientStep(c, IF IsRunning THEN "true" ELSE "open", lockfile)
    /\ UNCHANGED <<path, daemons>>

\* lines 109-116: open the lockfile and try the lock; BlockingIOError leads
\* to the sleep
TryLock(c) ==
    /\ clients[c] = "open"
    /\ IF Flock(c)
       THEN ClientStep(c, "locked", c)
       ELSE ClientStep(c, "sleep", lockfile)
    /\ UNCHANGED <<path, daemons>>

\* lines 115-116: time.sleep(1); return self.is_running()
SleepProbe(c) ==
    /\ clients[c] = "sleep"
    /\ ClientStep(c, IF IsRunning THEN "true" ELSE "false", lockfile)
    /\ UNCHANGED <<path, daemons>>

\* lines 120-121 and the finally (145-146): the double-check under the lock
DoubleCheck(c) ==
    /\ clients[c] = "locked"
    /\ IF IsRunning
       THEN ClientStep(c, "true", None)
       ELSE ClientStep(c, "spawn", lockfile)
    /\ UNCHANGED <<path, daemons>>

\* lines 129-135: subprocess.Popen of the service script
Spawn(c) ==
    /\ clients[c] = "spawn"
    /\ \E e \in Daemons : daemons[e].pc = "idle"
    /\ LET d == CHOOSE e \in Daemons : daemons[e].pc = "idle"
       IN  daemons' = Moved(d, "exists", FALSE)
    /\ ClientStep(c, "wait", lockfile)
    /\ UNCHANGED path

\* lines 138-141 and the finally: a poll of the wait loop finds the daemon up
PollReady(c) ==
    /\ clients[c] = "wait"
    /\ IsRunning
    /\ ClientStep(c, "true", None)
    /\ UNCHANGED <<path, daemons>>

\* lines 138-143 and the finally: twenty polls passed without an answer
GiveUp(c) ==
    /\ clients[c] = "wait"
    /\ ~IsRunning
    /\ ClientStep(c, "false", None)
    /\ UNCHANGED <<path, daemons>>

ClientNext ==
    \/ \E c \in Clients : FirstProbe(c)
    \/ \E c \in Clients : TryLock(c)
    \/ \E c \in Clients : SleepProbe(c)
    \/ \E c \in Clients : DoubleCheck(c)
    \/ \E c \in Clients : Spawn(c)
    \/ \E c \in Clients : PollReady(c)
    \/ \E c \in Clients : GiveUp(c)
    \/ \E d \in Daemons : StartUp(d)

ClientSpec == Init /\ [][ClientNext]_vars

\* ------------------------------------------------------------------ hooks
\* The hook scripts are the daemon's clients: each reads its hook input
\* (session_id, tool_use_id) and sends add or cancel requests.

\* the session and the tool_use_ids the hook inputs carry; NoTool is an input
\* without "tool_use_id" (hook_input.get("tool_use_id", "") is the empty string)
HookSessions == {"s"}
NoTool == ""
ToolUseIds == {NoTool, "t"}

\* on_permission.py's DELAYS = [60, 3600], in units of the model's clock:
\* a first deadline and a later second one
HookDelays == <<1, 2>>

\* on_permission.py line 57 and on_post_tool.py line 44:
\* f"{session_id}:{tool_use_id}" if tool_use_id else session_id
EscalationId(session_id, tool_use_id) ==
    IF tool_use_id # NoTool
    THEN session_id \o ":" \o tool_use_id
    ELSE session_id

\* cancel_escalation.py line 51 sends the session id alone
SessionKey(session_id, tool_use_id) == session_id

\* the events a permission prompt of session s with tool_use_id t created
\* that are not yet due
PendingOf(s, t) ==
    {e \in DOMAIN ev : /\ ev[e].escalation_id = EscalationId(s, t)
                       /\ ev[e].fire_time > now
                       /\ ~ev[e].cancelled}

\* on_permission.py, lines 51-67, for a permission_prompt: the add request
\* under the escalation id (the daemon is running: start_service())
OnPermission(w, s, t) ==
    AddBegin(w, EscalationId(s, t), "m1", HookDelays)

\* one cancel request of a hook and the handler serving it
\* (_handle_command, lines 416-420)
HookCancel(w, hook, s, t, id, next) ==
    /\ pc[w] = "idle"
    /\ LockFree
    /\ LET c == CancelInternal(ev, events_by_id, id)
       IN  /\ ev' = c.ev
           /\ events_by_id' = c.index
           /\ reply' = [command |-> "cancel", status |-> "ok", cancelled |-> c.found]
           /\ req' = [command |-> "cancel", hook |-> hook, id |-> id,
                      session_id |-> s, tool_use_id |-> t,
                      pending |-> [u \in ToolUseIds |-> PendingOf(s, u)],
                      done |-> next = "idle" \/ c.found]
           /\ pc' = [pc EXCEPT ![w] = IF c.found THEN "idle" ELSE next]
           /\ local' = [local EXCEPT ![w] =
                           IF c.found \/ next = "idle" THEN NoLocal
                           ELSE [NoLocal EXCEPT !.id = s]]
    /\ hist' = [hist EXCEPT !.doomed = @ \cup GroupInHeap(heap, events_by_id, id),
                            !.recent = <<>>,
                            !.hollow = @ \ {id}]
    /\ UNCHANGED serviceVars
    /\ UNCHANGED hostVars
    /\ UNCHANGED <<now, heap, running, lock, schedPc, next_event, waitUntil,
                   woken, nreq>>

\* cancel_escalation.py, lines 40-55: cancel by session id
CancelEscalationHook(w, s) ==
    HookCancel(w, "cancel_escalation", s, NoTool, SessionKey(s, NoTool), "idle")

\* on_post_tool.py, lines 36-49: cancel by escalation id; line 53: the
\* fallback follows when nothing was cancelled and there was a tool_use_id
OnPostTool(w, s, t) ==
    HookCancel(w, "on_post_tool", s, t, EscalationId(s, t),
               IF t # NoTool THEN "post_fallback" ELSE "idle")

\* on_post_tool.py, lines 53-55: the fallback cancel by session id
OnPostToolFallback(w) ==
    /\ pc[w] = "post_fallback"
    /\ LockFree
    /\ LET s == local[w].id
           c == CancelInternal(ev, events_by_id, s)
       IN  /\ ev' = c.ev
           /\ events_by_id' = c.index
           /\ reply' = [command |-> "cancel", status |-> "ok", cancelled |-> c.found]
           /\ req' = [command |-> "cancel", hook |-> "on_post_tool_fallback",
                      id |-> s, session_id |-> s, tool_use_id |-> NoTool,
                      pending |-> [u \in ToolUseIds |-> PendingOf(s, u)],
                      done |-> TRUE]
           /\ hist' = [hist EXCEPT
                  !.doomed = @ \cup GroupInHeap(heap, events_by_id, s),
                  !.recent = <<>>,
                  !.hollow = @ \ {s}]
    /\ pc' = [pc EXCEPT ![w] = "idle"]
    /\ local' = [local EXCEPT ![w] = NoLocal]
    /\ UNCHANGED serviceVars
    /\ UNCHANGED hostVars
    /\ UNCHANGED <<now, heap, running, lock, schedPc, next_event, waitUntil,
                   woken, nreq>>

\* a session's hooks and the engine they talk to
HookNext ==
    \/ \E w \in Workers, s \in HookSessions, t \in ToolUseIds : OnPermission(w, s, t)
    \/ \E w \in Workers : AddPush(w)
    \/ \E w \in Workers : AddEnd(w)
    \/ \E w \in Workers, s \in HookSessions : CancelEscalationHook(w, s)
    \/ \E w \in Workers, s \in HookSessions, t \in ToolUseIds : OnPostTool(w, s, t)
    \/ \E w \in Workers : OnPostToolFallback(w)
    \/ SchedTop
    \/ SchedWake
    \/ SchedFire
    \/ SchedReturn
    \/ Tick

HookSpec == Init /\ [][HookNext]_vars

\* ================================================================== claims
Fired == Range(hist.fired)

FireTime(e) == ev[e].fire_time

Last(s) == s[Len(s)]

\* the events created by the same add as e
GroupOf(e) == {f \in DOMAIN ev : hist.info[f].grp = hist.info[e].grp}

\* the records of a status reply for one id
RecordsFor(pending, id) == {r \in pending : r.escalation_id = id}

\* a status reply without next_fire_in
ViewOfReply(pending) ==
    {[escalation_id |-> r.escalation_id, message |-> r.message,
      pending_count |-> r.pending_count] : r \in pending}

\* the status reply just sent answers a status() that ran right after an add
StatusAfterAdd == reply.command = "status" /\ req.after # <<>>

\* ... right after two adds for the same id
StatusAfterTwoAdds ==
    /\ reply.command = "status"
    /\ Len(req.after) = 2
    /\ req.after[1].id = req.after[2].id

\* C1: an event of a group that was still in the heap when cancel(id), or the
\* cancel step of a replacing add(id, ...), ran on its group is never passed to
\* the notify callback; only an event the scheduler had popped before can be.
Thm_C1_CancelledBeforePopNeverFires == Fired \cap hist.doomed = {}

\* a cancelled event reached the top of the heap when due and was dropped there
Wit_C1_CancelledEventDropped ==
    \E e \in hist.doomed :
        /\ e \notin InHeap(heap)
        /\ FireTime(e) <= now
        /\ schedPc = "wait"

\* C2: no event is passed to the notify callback twice; a fired event is not
\* in the heap again, and the heap holds no event twice.
Thm_C2_FiresAtMostOnce ==
    /\ \A i, j \in 1..Len(hist.fired) : i # j => hist.fired[i] # hist.fired[j]
    /\ Fired \cap InHeap(heap) = {}
    /\ \A i, j \in 1..Len(heap) : i # j => heap[i] # heap[j]

Wit_C2_TwoEventsFired == Len(hist.fired) >= 2 /\ heap # <<>>

\* at most one active group per id: the un-cancelled events in the heap with a
\* given id are of the group created by the latest add that created events for
\* that id; and status() holds at most one record per id
OneGroupPerId ==
    /\ \A e \in InHeap(heap) : ~ev[e].cancelled =>
          \A f \in DOMAIN ev : ev[f].escalation_id = ev[e].escalation_id =>
              hist.info[f].grp <= hist.info[e].grp
    /\ \A r1, r2 \in StatusOf(ev, heap, events_by_id, now) :
          r1.escalation_id = r2.escalation_id => r1 = r2

\* C4 as stated: one active group per id, and after add(X, m1, ds1);
\* add(X, m2, ds2) status shows exactly one record for X, with m2 and len(ds2).
Orig_C4_OneGroupAndReplaced ==
    /\ OneGroupPerId
    /\ StatusAfterTwoAdds =>
          LET a == req.after[2]
              rs == RecordsFor(reply.pending, a.id)
          IN  /\ Cardinality(rs) = 1
              /\ \A r \in rs : r.message = a.message
                               /\ r.pending_count = Len(a.delays)

\* C4 amended: one active group per id, and after add(X, m1, ds1);
\* add(X, m2, ds2) status shows exactly one record for X, with m2 and len(ds2),
\* when ds2 is not empty, and no record for X when ds2 is empty.
Thm_C4_OneGroupAndReplaced ==
    /\ OneGroupPerId
    /\ StatusAfterTwoAdds =>
          LET a == req.after[2]
              rs == RecordsFor(reply.pending, a.id)
          IN  IF a.delays = <<>>
              THEN rs = {}
              ELSE /\ Cardinality(rs) = 1
                   /\ \A r \in rs : r.message = a.message
                                    /\ r.pending_count = Len(a.delays)

Wit_C4_ReplacedGroupShown ==
    /\ StatusAfterTwoAdds
    /\ req.after[1].message # req.after[2].message
    /\ Len(req.after[1].delays) = 2
    /\ Len(req.after[2].delays) = 2
    /\ \E e \in InHeap(heap) : ev[e].cancelled

\* C3: under fair scheduling, an event whose fire_time has been reached and
\* that is not flagged cancelled is eventually passed to the notify callback
\* (or flagged cancelled): no wake-up is lost, whether the add came while the
\* scheduler waited on an empty heap, waited for a later deadline, or was in a
\* callback.
Thm_C3_DueEventFires ==
    \A e \in 1..MaxEvents :
        (e \in DOMAIN ev /\ ~ev[e].cancelled /\ FireTime(e) <= now)
            ~> (e \in Fired \/ (e \in DOMAIN ev /\ ev[e].cancelled))

\* an add arrived while the scheduler waited for a later deadline, and its
\* event, now the earliest, has been fired while the older event still waits
Wit_C3_NewEarliestFired ==
    /\ schedPc = "callback"
    /\ \E f \in InHeap(heap) :
          /\ ~ev[f].cancelled
          /\ hist.info[f].grp < hist.info[Last(hist.fired)].grp
          /\ FireTime(f) > FireTime(Last(hist.fired))

\* every group is whole: all the events its add asked for exist, and either
\* the index holds exactly the group, or each of its events is out of the game
\* (flagged cancelled, or popped by the scheduler) and not in the index
GroupsWhole ==
    \A e \in DOMAIN ev :
        LET id == ev[e].escalation_id
            installed == id \in DOMAIN events_by_id /\ e \in Range(events_by_id[id])
        IN  /\ Cardinality(GroupOf(e)) = hist.info[e].size
            /\ IF installed
               THEN Range(events_by_id[id]) = GroupOf(e)
               ELSE ev[e].cancelled \/ e \notin InHeap(heap)

\* C5: whenever the lock is free - the only states in which cancel, status or
\* the scheduler can look - every group is whole: the state is the one before
\* an add or the one after it, never one in between.
Thm_C5_AddAtomic ==
    /\ LockFree => GroupsWhole
    /\ \A w \in Workers : pc[w] # "idle" => lock = w

\* a replacing add has completed: the prior group flagged, the new one installed
Wit_C5_ReplacedAtomically ==
    /\ LockFree
    /\ \E id \in DOMAIN events_by_id :
          /\ Len(events_by_id[id]) = 2
          /\ \E e \in InHeap(heap) :
                /\ ev[e].escalation_id = id
                /\ ev[e].cancelled
                /\ e \notin Range(events_by_id[id])

\* C6 as stated: the events fire in non-decreasing fire_time order.
Orig_C6_FireOrder ==
    \A i, j \in 1..Len(hist.fired) :
        i < j => FireTime(hist.fired[i]) <= FireTime(hist.fired[j])

\* C6 amended: the events fire in non-decreasing fire_time order, except that
\* an event created with a negative delay can fire after an event with a later
\* fire_time.
Thm_C6_FireOrder ==
    \A i, j \in 1..Len(hist.fired) :
        (i < j /\ FireTime(hist.fired[j]) < FireTime(hist.fired[i]))
            => hist.info[hist.fired[j]].delay < 0

Wit_C6_TwoGroupsFiredInOrder ==
    \E i, j \in 1..Len(hist.fired) :
        /\ i < j
        /\ hist.info[hist.fired[i]].grp # hist.info[hist.fired[j]].grp
        /\ hist.info[hist.fired[i]].delay >= 0
        /\ hist.info[hist.fired[j]].delay >= 0
        /\ FireTime(hist.fired[i]) < FireTime(hist.fired[j])

\* C7: when an event is passed to the notify callback the clock has reached
\* its fire_time, and every un-cancelled event of its group with a smaller
\* fire_time has been fired before it.
Thm_C7_NotEarlyNotOutOfOrder ==
    \A k \in 1..Len(hist.fired) :
        LET e == hist.fired[k]
        IN  /\ FireTime(e) <= now
            /\ \A f \in GroupOf(e) :
                  (~ev[f].cancelled /\ FireTime(f) < FireTime(e))
                      => \E i \in 1..(k - 1) : hist.fired[i] = f

\* the second event of a group fires at its own fire_time, after the first
Wit_C7_SecondOfGroupFires ==
    /\ schedPc = "callback"
    /\ Len(hist.fired) >= 2
    /\ LET e == Last(hist.fired)
       IN  /\ FireTime(e) = now
           /\ \E f \in GroupOf(e) : FireTime(f) < FireTime(e) /\ f \in Fired

\* C8 as stated: status() right after add(id, m, ds) has a record for id with
\* pending_count = len(ds) and next_fire_in <= min(ds).
Orig_C8_StatusAfterAdd ==
    (StatusAfterAdd /\ Last(req.after).delays # <<>>) =>
        LET a == Last(req.after)
        IN  \E r \in RecordsFor(reply.pending, a.id) :
                /\ r.pending_count = Len(a.delays)
                /\ r.next_fire_in <= SeqMin(a.delays)

\* C8 amended: status() right after add(id, m, ds), ds not empty, has a record
\* for id with pending_count = len(ds) and next_fire_in <= max(0, min(ds)).
Thm_C8_StatusAfterAdd ==
    (StatusAfterAdd /\ Last(req.after).delays # <<>>) =>
        LET a == Last(req.after)
        IN  \E r \in RecordsFor(reply.pending, a.id) :
                /\ r.pending_count = Len(a.delays)
                /\ r.next_fire_in <= Max2(0, SeqMin(a.delays))

Wit_C8_StatusAfterAdd ==
    /\ StatusAfterAdd
    /\ Len(Last(req.after).delays) = 2
    /\ \E r \in RecordsFor(reply.pending, Last(req.after).id) : r.next_fire_in = 1

\* C9: status() after add(id, m, ds); add(id, m, ds) shows what it shows after
\* the first add alone, and the events of id that can still fire are the
\* len(ds) events of the second add: those of the first are all cancelled.
Thm_C9_ReAddIdempotent ==
    (StatusAfterTwoAdds
        /\ req.after[1].message = req.after[2].message
        /\ req.after[1].delays = req.after[2].delays) =>
            LET a1 == req.after[1]
                a2 == req.after[2]
            IN  /\ ViewOfReply(reply.pending) = a1.view
                /\ \A e \in Range(a1.events) : ev[e].cancelled
                /\ {e \in InHeap(heap) : ev[e].escalation_id = a1.id
                                         /\ ~ev[e].cancelled} = Range(a2.events)
                /\ Len(a2.events) = Len(a1.delays)

Wit_C9_ReAddIdempotent ==
    /\ StatusAfterTwoAdds
    /\ req.after[1].message = req.after[2].message
    /\ req.after[1].delays = req.after[2].delays
    /\ Len(req.after[1].delays) = 2
    /\ reply.pending # {}

PartlyFired(a) ==
    /\ Range(a.old) \ InHeap(a.heap0) # {}
    /\ Range(a.old) \cap InHeap(a.heap0) # {}

\* C11: an add with an empty delays list creates no events and leaves the
\* heap as it was (it only flags the prior group of the id); a status() right
\* after it does not list the id; and as long as that add is the id's latest,
\* the heap holds no event of the id that can fire.
Thm_C11_EmptyAdd ==
    /\ \A i \in 1..Len(hist.recent) :
          LET a == hist.recent[i]
          IN  a.delays = <<>> =>
                  /\ a.events = <<>>
                  /\ a.heap1 = a.heap0
                  /\ \A e \in Range(a.old) : ev[e].cancelled
    /\ (StatusAfterAdd /\ Last(req.after).delays = <<>>) =>
          RecordsFor(reply.pending, Last(req.after).id) = {}
    /\ LockFree => \A id \in hist.hollow : ~HasLive(ev, heap, id)

\* status() right after an empty add that replaced a group still in the heap
Wit_C11_EmptyAddReplaced ==
    /\ StatusAfterAdd
    /\ Last(req.after).delays = <<>>
    /\ Range(Last(req.after).old) \cap InHeap(heap) # {}
    /\ RecordsFor(reply.pending, Last(req.after).id) = {}

\* C12 as stated: add(id, m2, ds2) on a group that has partly fired flags every
\* event of the old group that is still in the heap (none of them fires), and
\* installs exactly len(ds2) new events; status then reports id with m2 and
\* pending_count = len(ds2).
Orig_C12_ReAddPartlyFired ==
    /\ \A e \in hist.doomed : ev[e].cancelled /\ e \notin Fired
    /\ (StatusAfterAdd /\ PartlyFired(Last(req.after))) =>
          LET a == Last(req.after)
          IN  /\ \A e \in Range(a.old) \cap InHeap(a.heap0) : ev[e].cancelled
              /\ Len(a.events) = Len(a.delays)
              /\ Range(a.events) \cap Range(a.old) = {}
              /\ \E r \in RecordsFor(reply.pending, a.id) :
                    r.message = a.message /\ r.pending_count = Len(a.delays)

\* C12 amended: the same, with status reporting id with m2 and
\* pending_count = len(ds2) when ds2 is not empty, and not listing id when ds2
\* is empty.
Thm_C12_ReAddPartlyFired ==
    /\ \A e \in hist.doomed : ev[e].cancelled /\ e \notin Fired
    /\ (StatusAfterAdd /\ PartlyFired(Last(req.after))) =>
          LET a == Last(req.after)
              rs == RecordsFor(reply.pending, a.id)
          IN  /\ \A e \in Range(a.old) \cap InHeap(a.heap0) : ev[e].cancelled
              /\ Len(a.events) = Len(a.delays)
              /\ Range(a.events) \cap Range(a.old) = {}
              /\ IF a.delays = <<>>
                 THEN rs = {}
                 ELSE /\ Cardinality(rs) = 1
                      /\ \A r \in rs : r.message = a.message
                                       /\ r.pending_count = Len(a.delays)

\* status() right after a two-delay add that replaced a group whose first
\* event had fired
Wit_C12_ReAddPartlyFired ==
    /\ StatusAfterAdd
    /\ PartlyFired(Last(req.after))
    /\ Range(Last(req.after).old) \cap Fired # {}
    /\ Len(Last(req.after).delays) = 2

\* ---------------------------------------------------------------- registry
\* the records of S other than the one of sid, in order
Others(S, sid) == SelectSeq(S, LAMBDA r : r.id # sid)

RegistryReply ==
    reply.command \in {"register_session", "unregister_session"}

\* C14 as stated: with no sweep removal, the session_count of a register /
\* unregister reply, and of status, is n - m, or 0 if that is negative.
Orig_C14_SessionCount ==
    ~shist.swept =>
        /\ RegistryReply => reply.session_count = Max2(0, shist.n - shist.m)
        /\ reply.command = "status" =>
              reply.session_count = Max2(0, shist.n - shist.m)

\* C14 amended: with no sweep removal, the session_count of a register /
\* unregister reply, and of status, is the number of registered sessions,
\* which is the number of register requests that named an id not registered
\* minus the number of unregister requests that removed a session (each one
\* served on a non-empty registry); it is n - m when every register named a
\* new id and every unregister removed a session.
Thm_C14_SessionCount ==
    /\ ~shist.swept => Len(sessions) = shist.added - shist.removed
    /\ (RegistryReply \/ reply.command = "status") =>
          reply.session_count = Len(sessions)
    /\ (~shist.swept /\ shist.added = shist.n /\ shist.removed = shist.m) =>
          Len(sessions) = shist.n - shist.m

\* two sessions registered, one of them twice, one unregistered
Wit_C14_CountAfterReRegister ==
    /\ reply.command = "unregister_session"
    /\ reply.session_count = 1
    /\ shist.n = 3
    /\ shist.added = 2
    /\ ~shist.swept

\* C15: unregister_session replies shutting_down = true and clears the
\* daemon's running flag exactly when the session count it leaves is 0; when a
\* session remains, running is left as it was and shutting_down is false.
Thm_C15_UnregisterShutdown ==
    reply.command = "unregister_session" =>
        /\ reply.session_count = Len(sessions)
        /\ reply.shutting_down <=> (reply.session_count = 0)
        /\ reply.session_count = 0 => ~service_running
        /\ reply.session_count > 0 => (service_running <=> req.was_running)

\* the last session was unregistered while the daemon was running
Wit_C15_LastSessionUnregistered ==
    /\ reply.command = "unregister_session"
    /\ reply.shutting_down
    /\ req.was_running
    /\ ~service_running
    /\ Len(req.before) = 1

\* C16 as stated: an unregister_session whose session_id is supplied but not
\* registered removes nothing.
Orig_C16_UnknownIdRemovesNothing ==
    (reply.command = "unregister_session"
        /\ req.session_id # None
        /\ req.session_id \notin SessionIdsOf(req.before))
            => sessions = req.before

\* registry uniqueness: no two records with the same id
UniqueSessionIds ==
    \A i, j \in 1..Len(sessions) : i # j => sessions[i].id # sessions[j].id

\* C17: session ids are unique in the registry, and register_session with an
\* id already registered leaves session_count as it was and replaces that
\* id's pid and registered_at; every other session is untouched.
Thm_C17_ReRegisterReplaces ==
    /\ UniqueSessionIds
    /\ (reply.command = "register_session"
           /\ req.session_id \in SessionIdsOf(req.before)) =>
          /\ reply.session_count = Len(req.before)
          /\ Len(sessions) = Len(req.before)
          /\ Others(sessions, req.session_id) = Others(req.before, req.session_id)
          /\ \A i \in 1..Len(sessions) :
                sessions[i].id = req.session_id =>
                    /\ sessions[i].pid = req.pid
                    /\ sessions[i].registered_at = now
                    /\ req.before[i].id = req.session_id

\* a session re-registered later and with another pid, next to a second one
Wit_C17_ReRegistered ==
    /\ reply.command = "register_session"
    /\ Len(req.before) = 2
    /\ \E i \in 1..2 :
          /\ req.before[i].id = req.session_id
          /\ req.before[i].pid # req.pid
          /\ req.before[i].registered_at < now

\* C18: unregister_session without session_id removes exactly one session,
\* the one with the smallest registered_at, the first of them in insertion
\* order, and reports its id; on an empty registry it removes nothing.
Thm_C18_UnregisterOldest ==
    (reply.command = "unregister_session" /\ req.session_id = None) =>
        IF req.before = <<>>
        THEN sessions = <<>> /\ reply.session_id = None
        ELSE /\ Len(sessions) = Len(req.before) - 1
             /\ sessions = Others(req.before, reply.session_id)
             /\ \E k \in 1..Len(req.before) :
                   /\ req.before[k].id = reply.session_id
                   /\ \A j \in 1..Len(req.before) :
                         req.before[k].registered_at <= req.before[j].registered_at
                   /\ \A j \in 1..(k - 1) :
                         req.before[k].registered_at < req.before[j].registered_at

\* the second session registered was the older one and was removed
Wit_C18_OlderSecondRemoved ==
    /\ reply.command = "unregister_session"
    /\ req.session_id = None
    /\ Len(req.before) = 2
    /\ req.before[2].id = reply.session_id
    /\ req.before[2].registered_at < req.before[1].registered_at

\* the sessions a sweep has to remove: pid set and no such process
DeadIn(S) == {S[i].id : i \in {k \in 1..Len(S) :
                 S[k].pid # NoPid /\ S[k].pid \notin alive}}

\* C19: a sweep removes exactly the sessions whose pid is set and not alive,
\* and clears the running flag exactly when the registry is empty after it
\* and it removed a session.
Thm_C19_Sweep ==
    req.command = "sweep" =>
        /\ sessions = SelectSeq(req.before, LAMBDA r : r.id \notin DeadIn(req.before))
        /\ req.was_running
        /\ ~service_running <=> (sessions = <<>> /\ req.before # <<>>)

\* the daemon's only session had a dead pid: the sweep removed it and cleared
\* the running flag
Wit_C19_OnlySessionDead ==
    /\ req.command = "sweep"
    /\ Len(req.before) = 1
    /\ sessions = <<>>
    /\ ~service_running

\* ------------------------------------------------------------------ C13
\* the prompts a finished hook run answers: cancel_escalation.py every prompt
\* of the session, on_post_tool.py the prompt with its tool_use_id
Answered ==
    IF req.hook = "cancel_escalation" THEN ToolUseIds
    ELSE IF req.hook = "on_post_tool" THEN {req.tool_use_id}
    ELSE {}

HookRan ==
    /\ req.command = "cancel"
    /\ "hook" \in DOMAIN req
    /\ req.done

\* C13: when a session's user-activity hook has run before the first deadline
\* of a permission prompt's escalation (cancel_escalation.py for the session,
\* or on_post_tool.py with the prompt's tool_use_id), none of that prompt's
\* events is left to fire: all of them are cancelled.
\* (C13 as stated)
Orig_C13_HookCancelsPrompt ==
    HookRan =>
        \A t \in Answered :
            req.pending[t] # {} => PendingOf(req.session_id, t) = {}

\* the part of C13 about on_post_tool.py alone
PostToolCancelsPrompt ==
    (HookRan /\ req.hook = "on_post_tool") => Orig_C13_HookCancelsPrompt

\* a prompt with a tool_use_id was pending when cancel_escalation.py ran
Wit_C13_CancelHookAfterToolPrompt ==
    /\ HookRan
    /\ req.hook = "cancel_escalation"
    /\ req.pending["t"] # {}

\* ------------------------------------------------------------------ C20
\* the daemon is gone: the main thread has left the accept loop and finished
\* shutdown(), the engine is stopped, the listening socket is closed and the
\* socket path is unlinked, so a client's connect fails
Terminated ==
    /\ mainPc = "done"
    /\ ~running
    /\ ~listening
    /\ ~socket_file

\* C20: once the running flag is cleared (shutdown RPC, unregister leaving no
\* session, sweep, or signal), the daemon eventually leaves the accept loop,
\* stops the engine, closes the socket and unlinks its path, and stays so.
Thm_C20_OrderlyTermination == (~service_running) ~> []Terminated

\* the daemon terminated with a session still registered: the flag was
\* cleared by the shutdown RPC or a signal, not by the session count
Wit_C20_TerminatedWithSession ==
    /\ Terminated
    /\ sessions # <<>>

\* ------------------------------------------------------------------ C21
\* the daemons that went through start() and did not exit
Running == {d \in Daemons : Serving(d)}

\* every started daemon has settled, and some daemon was started that was
\* not killed
RaceOver ==
    /\ Quiescent
    /\ \E d \in Daemons : daemons[d].pc \notin {"idle", "dead"}

StartReq == req.command = "start"

\* C22: a daemon started alone on an existing path: a path that is no socket
\* makes it exit and stays; a path a live daemon listens on makes it exit,
\* the file and the live daemon stay; a socket file nobody listens on is
\* unlinked, then the bind succeeds and the daemon serves the path.  No
\* other exit happens.
Thm_C22_StartupResolution ==
    /\ (StartReq /\ req.step = "stat" /\ req.before = "notsocket") =>
           /\ daemons[req.daemon].pc = "exit_notsocket"
           /\ path = "notsocket"
    /\ (StartReq /\ req.step = "probe" /\ req.before \in req.live) =>
           /\ daemons[req.daemon].pc = "exit_live"
           /\ path = req.before
           /\ Serving(req.before)
    /\ (StartReq /\ req.step = "probe" /\ req.before \notin req.live) =>
           daemons[req.daemon].pc = "unlink"
    /\ (StartReq /\ req.step = "unlink") =>
           /\ daemons[req.daemon].pc = "bind"
           /\ path = "absent"
    /\ (StartReq /\ req.step = "bind") =>
           /\ daemons[req.daemon].pc = "chmod"
           /\ path = req.daemon
    /\ \A d \in Daemons :
           /\ daemons[d].pc \notin {"crash", "exit_stat"}
           /\ Serving(d) => path = d

\* a daemon serves the path after unlinking the socket file a killed daemon
\* left, and a later daemon has exited on finding it live
Wit_C22_StaleReplacedLiveKept ==
    \E d, e, f \in Daemons :
        /\ daemons[d].pc = "dead"
        /\ Serving(e) /\ daemons[e].unlinked /\ path = e
        /\ daemons[f].pc = "exit_live"

\* ------------------------------------------------------------------ C23
\* the clients inside the section the lockfile guards
Holders == {c \in Clients : clients[c] \in {"locked", "spawn", "wait"}}

\* at most one client at a time is between the lock and its release
OneHolder ==
    /\ Cardinality(Holders) <= 1
    /\ \A c \in Holders : lockfile = c

\* C23: whatever number of clients run start_service_if_needed while no
\* daemon is reachable, at most one daemon process is spawned in total.
\* (C23 as stated)
Orig_C23_OneSpawn == Cardinality(Spawned) <= 1

\* a second daemon was spawned while the first was not reachable yet
Wit_C23_SecondSpawn ==
    /\ Cardinality(Spawned) = 2
    /\ ~IsRunning
    /\ \E c \in Clients : clients[c] = "false"

\* ------------------------------------------------------------------ C24
\* the frame the step just taken dropped or answered as an unknown command
FrameReq == req.command = "frame"

\* the frame is a complete frame within the size limit whose body is a JSON
\* object
WellFormed(f) == f.len <= MaxMessageSize /\ f.got = f.len /\ f.json

RpcCommands ==
    {"add", "cancel", "status", "register_session", "unregister_session",
     "shutdown"}

\* C24: a connection that delivered a well-formed frame with a JSON object got
\* a reply with status "ok" or "error"; an object whose command X is not
\* known got {status: "error", message: "unknown command: X"}.
\* (C24 as stated)
Orig_C24_OneReply ==
    /\ (FrameReq /\ WellFormed(FrameList[req.frame])) =>
           /\ reply # NoReply
           /\ reply.status = "error"
           /\ reply.message =
                  "unknown command: " \o Get(FrameList[req.frame].body, "command", "")
    /\ (req.command \in RpcCommands /\ "hook" \notin DOMAIN req) =>
           /\ reply # NoReply
           /\ reply.status = "ok"

\* the empty object was delivered in a well-formed frame
Wit_C24_EmptyObject ==
    /\ FrameReq
    /\ WellFormed(FrameList[req.frame])
    /\ FrameList[req.frame].body = EmptyObject

\* ------------------------------------------------------------------ C25
\* the frame is over the size limit, ends early, or is no JSON
FramingError(f) == f.len > MaxMessageSize \/ f.got < f.len \/ ~f.json

ErrorFrames == {i \in Frames : FramingError(FrameList[i])}

\* C25: a connection with a framing error gets no reply and changes nothing:
\* events, heap, index, registry, running flag, the engine's lock, the
\* workers and the accept loop are as before, so a status request that
\* follows is served as it would have been before.
Thm_C25_FramingErrorIsolated ==
    [][\A w \in Workers, i \in ErrorFrames :
          HandleClient(w, i) =>
              /\ reply' = NoReply
              /\ Snapshot' = Snapshot
              /\ mainPc' = mainPc]_vars

\* a frame with a framing error was dropped by a daemon that has events
\* scheduled and a session registered
Wit_C25_DroppedWhileBusy ==
    /\ FrameReq
    /\ FramingError(FrameList[req.frame])
    /\ heap # <<>>
    /\ sessions # <<>>
    /\ reply = NoReply

\* ------------------------------------------------------------------ C26
\* the step just taken was a run of the callback
NotifyReq == req.command = "notify"

LastNote == notified[Len(notified)]

\* at that run a session was registered under exactly the event's id, with
\* a pid, and the process was found busy
BusyAtFire ==
    /\ req.probe = "busy"
    /\ \E i \in 1..Len(req.sessions) :
          /\ req.sessions[i].id = ev[req.event].escalation_id
          /\ req.sessions[i].pid # NoPid

\* the other events of e's group that were waiting in heap h
RestOfGroup(e, h) == (GroupOf(e) \ {e}) \cap InHeap(h)

\* C26: the callback runs for every popped, un-cancelled event, in order; it
\* runs the notifier exactly when no session with a pid is registered under
\* the event's id or the process is not found busy; a busy drop leaves the
\* heap, the events and the index as they were, so the rest of the group
\* stays scheduled as it was, with its fire times.
Thm_C26_BusySuppression ==
    /\ Len(notified) <= Len(hist.fired)
    /\ \A i \in 1..Len(notified) : notified[i].event = hist.fired[i]
    /\ NotifyReq =>
          /\ LastNote.event = req.event
          /\ LastNote.invoked <=> ~BusyAtFire
          /\ ~LastNote.invoked =>
                /\ heap = req.before.heap
                /\ ev = req.before.ev
                /\ events_by_id = req.before.events_by_id
                /\ \A f \in RestOfGroup(req.event, req.before.heap) :
                      f \in InHeap(heap) /\ ev[f] = req.before.ev[f]

\* the first event of a group was dropped as busy and a later event of the
\* same group was sent
Wit_C26_DroppedThenSent ==
    \E i, j \in 1..Len(notified) :
        /\ i < j
        /\ ~notified[i].invoked
        /\ notified[j].invoked
        /\ notified[j].event \in GroupOf(notified[i].event)

\* ------------------------------------------------------------------ C27
\* C27: when the notifier fails (non-zero exit, timeout, no such program) the
\* event is not put back: heap, events and index are as before the callback,
\* the event is not in the heap, the scheduler goes on with its loop, and no
\* event is ever handed to the callback twice.
Thm_C27_NotifierFailure ==
    /\ \A i, j \in 1..Len(notified) :
          notified[i].event = notified[j].event => i = j
    /\ (NotifyReq /\ LastNote.failed) =>
          /\ req.outcome \in Outcomes \ {"ok"}
          /\ heap = req.before.heap
          /\ ev = req.before.ev
          /\ events_by_id = req.before.events_by_id
          /\ req.event \notin InHeap(heap)
          /\ schedPc = "top"
          /\ \A f \in RestOfGroup(req.event, req.before.heap) :
                f \in InHeap(heap) /\ ev[f] = req.before.ev[f]

\* a notification failed and a later event of the same group was sent
Wit_C27_FailedThenSent ==
    \E i, j \in 1..Len(notified) :
        /\ i < j
        /\ notified[i].failed
        /\ notified[j].invoked /\ ~notified[j].failed
        /\ notified[j].event \in GroupOf(notified[i].event)

\* ------------------------------------------------------------------ C28
\* the delay the event was created for
DelayOf(e) == hist.info[e].delay

\* C28: an event created for delay 3600 has priority 2, for delay 60 and for
\* every other delay priority 0; the notifier gets the title "Claude
\* Permission" below priority 2 and "Claude Permission (1hr)" at priority 2,
\* and --retry 60 --expire 3600 exactly at priority 2.
Thm_C28_PriorityAndTitle ==
    /\ \A e \in DOMAIN ev :
          ev[e].priority = IF DelayOf(e) = 3600 THEN 2 ELSE 0
    /\ \A i \in 1..Len(notified) :
          LET e == ev[notified[i].event]
              c == notified[i].cmd
          IN  /\ c.priority = e.priority
              /\ c.message = e.message
              /\ c.title = IF e.priority < 2 THEN "Claude Permission"
                           ELSE "Claude Permission (1hr)"
              /\ c.extra = IF e.priority = 2
                           THEN <<"--retry", "60", "--expire", "3600">>
                           ELSE <<>>

\* the events for delay 60 and for delay 3600 were both sent
Wit_C28_BothPrioritiesSent ==
    \E i, j \in 1..Len(notified) :
        /\ notified[i].invoked /\ DelayOf(notified[i].event) = 60
        /\ notified[i].cmd.priority = 0
        /\ notified[j].invoked /\ DelayOf(notified[j].event) = 3600
        /\ notified[j].cmd.priority = 2

\* ------------------------------------------------------------------ C29
\* the notifications sent for events of add("S2", "hi", [1, 2])
S2Notes ==
    {i \in 1..Len(notified) :
        /\ notified[i].invoked
        /\ ev[notified[i].event].escalation_id = "S2"}

FirstStage ==
    [title |-> "Claude Permission", message |-> "hi", priority |-> 0,
     extra |-> <<>>]

SecondStage ==
    [title |-> "Claude Permission (1hr)", message |-> "hi", priority |-> 2,
     extra |-> <<"--retry", "60", "--expire", "3600">>]

\* C29: the two notifications of add("S2", "hi", [1, 2]) are ("Claude
\* Permission", "hi", 0) for the first delay and ("Claude Permission (1hr)",
\* "hi", 2, retry 60, expire 3600) for the second.
\* (C29 as stated)
Orig_C29_ScenarioS2 ==
    \A i \in S2Notes :
        notified[i].cmd = IF DelayOf(notified[i].event) = 1 THEN FirstStage
                          ELSE SecondStage

\* C29: each event of add("S2", "hi", [1, 2]) is sent at most once, the event
\* for delay 1 before the event for delay 2 of its group, and both as
\* ("Claude Permission", "hi", 0) without retry and expire; with no session
\* registered, a group whose two events went through the callback has
\* exactly two notifications.
Thm_C29_ScenarioS2 ==
    /\ \A i \in S2Notes : notified[i].cmd = FirstStage
    /\ \A i, j \in S2Notes :
          /\ notified[i].event = notified[j].event => i = j
          /\ (/\ notified[j].event \in GroupOf(notified[i].event)
              /\ DelayOf(notified[i].event) < DelayOf(notified[j].event)) => i < j
    /\ \A e \in DOMAIN ev :
          (/\ ev[e].escalation_id = "S2"
           /\ sessions = <<>>
           /\ \A f \in GroupOf(e) : \E i \in 1..Len(notified) : notified[i].event = f)
          => Cardinality({i \in S2Notes : notified[i].event \in GroupOf(e)}) = 2

\* both events of one add("S2", "hi", [1, 2]) were sent
Wit_C29_BothStagesSent ==
    \E i, j \in S2Notes :
        /\ i < j
        /\ notified[j].event \in GroupOf(notified[i].event)
        /\ DelayOf(notified[i].event) = 1
        /\ DelayOf(notified[j].event) = 2

\* ------------------------------------------------------------------ C30
\* an escalation_ctl run has ended
CtlDone == ctl.pc = "done"

\* the run failed: the service was down, the RPC gave no result or an error
\* reply, the program raised, or a cancel found no escalation
CtlFailed ==
    \/ ~ctl.up /\ ~(ctl.command \in {"start", "add", "register"} /\ ServiceIsRunning)
    \/ ctl.raised
    \/ ctl.command \notin {"start"} /\ ~ResultOk(ctl.result)
    \/ ctl.command = "cancel" /\ ~Get(ctl.result.value, "cancelled", FALSE)

\* C30: every escalation_ctl command exits 0 on success and 1 on failure,
\* failure being the service down, an RPC error, or, for cancel, an
\* escalation id that was not found.
\* (C30 as stated)
Orig_C30_ExitCodes == CtlDone => ctl.exit = IF CtlFailed THEN 1 ELSE 0

\* cancel of an id with no escalation, served by a running daemon, exits 0
Wit_C30_CancelNotFoundExitsZero ==
    /\ CtlDone
    /\ ctl.command = "cancel"
    /\ ctl.up
    /\ ResultOk(ctl.result)
    /\ ~ctl.result.value.cancelled
    /\ ctl.exit = 0

\* ------------------------------------------------------------------ C31
\* the events the scheduler has not popped and not flagged
Remaining == {e \in InHeap(heap) : ~ev[e].cancelled}

\* C31: once EscalationScheduler.running is false the scheduler pops no
\* event; the only event still passed to the callback is the one it had
\* popped before; no event that is in the heap is ever fired; and the
\* scheduler thread ends and stays ended, from an indefinite wait, from a
\* timed wait and from anywhere else in its loop.
Thm_C31_ShutdownStopsFiring ==
    /\ [][~running =>
            /\ schedPc' = "fire" => schedPc = "fire"
            /\ \A e \in InHeap(heap) : e \in InHeap(heap')
            /\ Fired' # Fired => (schedPc = "fire" /\ Fired' = Fired \cup {next_event})
            /\ ~running']_vars
    /\ ~running ~> [](schedPc = "exit")

\* the thread has ended with an event in the heap that is due and not
\* cancelled, after at least one event was fired
Wit_C31_ExitedWithDueEvent ==
    /\ schedPc = "exit"
    /\ Fired # {}
    /\ \E e \in Remaining : FireTime(e) <= now

\* ------------------------------------------------------------------ C32
\* C32: no error raised while an event is fired ends the scheduler thread;
\* after such an error the scheduler still fires later events.
\* (C32 as stated)
Orig_C32_WorkersContinue == schedPc # "dead"

\* the scheduler thread was ended by an exception of the callback, and an
\* event that is due and not cancelled is left in the heap
Wit_C32_DeadWithDueEvent ==
    /\ schedPc = "dead"
    /\ \E e \in Remaining : FireTime(e) <= now /\ IsString(ev[e].message)

\* ------------------------------------------------------------------ C33
\* the locks thread t holds
Held(t) ==
    {l \in {"lock", "session_lock"} :
        \/ l = "lock" /\ lock = t
        \/ l = "session_lock" /\ session_lock = t}

\* thread t is at a "with" whose lock another thread holds
Blocked(t) ==
    /\ thr[t] # NoOperation
    /\ \/ NextStatement(t) = "acquire lock" /\ ~LockFree
       \/ NextStatement(t) = "acquire session_lock" /\ session_lock # None

\* C33: no thread holds the scheduler's lock and the registry's lock at the
\* same time, so no holder of a lock is blocked on the other lock: status has
\* left the scheduler's lock when it takes the registry's, and the scheduler
\* thread has left its lock when the busy check takes the registry's.
Thm_C33_OneMutexAtATime ==
    \A t \in Threads :
        /\ Cardinality(Held(t)) <= 1
        /\ Held(t) # {} => ~Blocked(t)

\* status holds the registry's lock while the scheduler thread, in its
\* callback, waits for it and a worker holds the scheduler's lock
Wit_C33_StatusAndBusyCheck ==
    /\ \E w \in Workers : thr[w].op = "status" /\ session_lock = w
    /\ thr["scheduler"].done = 4
    /\ Blocked("scheduler")
    /\ \E w \in Workers : lock = w

\* ------------------------------------------------------------------ C34
\* the index without the entry of id
Without(idx, id) == [x \in DOMAIN idx \ {id} |-> idx[x]]

\* the events the index holds for id
IndexedGroup(id) ==
    IF id \in DOMAIN events_by_id THEN Range(events_by_id[id]) ELSE {}

\* what a cancel of id may change: the flags of the events indexed under id,
\* and the entry of id
OnlyCancels(id) ==
    /\ heap' = heap
    /\ DOMAIN ev' = DOMAIN ev
    /\ \A e \in DOMAIN ev :
          ev'[e] = IF e \in IndexedGroup(id)
                   THEN [ev[e] EXCEPT !.cancelled = TRUE]
                   ELSE ev[e]
    /\ events_by_id' = Without(events_by_id, id)

Indexed(e) == e \in IndexedGroup(ev[e].escalation_id)

\* the un-cancelled events in the heap that the index does not hold
Orphans == {e \in Remaining : ~Indexed(e)}

\* C35: whenever the scheduler's lock is free, every un-cancelled event in
\* the heap is in events_by_id under its own id, also after an add that
\* failed partway.
\* (C35 as stated)
Orig_C35_HeapIndexConsistent == LockFree => Orphans = {}

\* after a failed add its first event is in the heap, not cancelled and not
\* indexed; status does not list its id and cancel of its id answers false
Wit_C35_OrphanNotCancellable ==
    /\ LockFree
    /\ req.command = "cancel"
    /\ ~reply.cancelled
    /\ \E e \in Orphans : ev[e].escalation_id = req.id
    /\ StatusOf(ev, heap, events_by_id, now) = {}

\* ------------------------------------------------------------------ C36
\* the events of id's index entry that are in the heap and not cancelled
Live(id) == Active(ev, heap, events_by_id[id])

\* the ids status() lists
Listed == {r.escalation_id : r \in StatusOf(ev, heap, events_by_id, now)}

\* C36: whenever the scheduler's lock is free, every key of events_by_id has
\* an event that is neither cancelled nor popped, and the keys are the ids
\* status() lists.
\* (C36 as stated)
Orig_C36_NoLeakedEntries ==
    LockFree =>
        /\ \A id \in DOMAIN events_by_id : Live(id) # {}
        /\ DOMAIN events_by_id = Listed

\* C36: whenever the scheduler's lock is free, every key of events_by_id
\* whose add created an event has an event that is neither cancelled nor
\* popped; the keys with an event are the ids status() lists; the only
\* other keys are those of an add with no delays, which stay until the id is
\* cancelled or added again.
Thm_C36_NoLeakedEntries ==
    LockFree =>
        /\ \A id \in DOMAIN events_by_id :
              events_by_id[id] # <<>> => Live(id) # {}
        /\ {id \in DOMAIN events_by_id : events_by_id[id] # <<>>} = Listed
        /\ {id \in DOMAIN events_by_id : events_by_id[id] = <<>>} = hist.hollow

\* both events of a group have been popped and fired, its entry is gone,
\* and the entry of another id is in the index
Wit_C36_EntryRemovedAtLastPop ==
    /\ LockFree
    /\ \E e \in Fired :
          /\ Cardinality(GroupOf(e)) = 2
          /\ GroupOf(e) \subseteq Fired
          /\ ev[e].escalation_id \notin DOMAIN events_by_id
    /\ events_by_id # <<>>

\* ============================================== unregister, statement by
\* statement
\* the unregister_session handler up to the end of its "with
\* self.session_lock" block (_handle_command, lines 453-465): the session is
\* removed and should_shutdown is decided; register_session and the sweep
\* take the same lock for their whole update, so each of them is one step
UnregisterLocked(w, sid) ==
    /\ pc[w] = "idle"
    /\ Accepting
    /\ shist.n + shist.m < MaxSessionRequests
    /\ LET target == UnregisterTarget(sessions, sid)
           left == IF target = None THEN sessions
                   ELSE RemoveSessions(sessions, {target})
       IN  /\ sessions' = left
           /\ local' = [local EXCEPT ![w] =
                  [session_id |-> IF target = None THEN sid ELSE target,
                   count |-> Len(left),
                   should_shutdown |-> ShouldShutdown(Len(left))]]
           /\ shist' = [shist EXCEPT !.m = @ + 1,
                          !.removed = IF target = None THEN @ ELSE @ + 1]
    /\ pc' = [pc EXCEPT ![w] = "unlocked"]
    /\ reply' = NoReply
    /\ req' = [command |-> "unregister_session", session_id |-> sid,
               pid |-> NoPid, before |-> sessions,
               was_running |-> service_running]
    /\ UNCHANGED <<service_running, alive, mainPc, listening, socket_file>>
    /\ UNCHANGED <<now, ev, heap, events_by_id, running, lock, schedPc,
                   next_event, waitUntil, woken, nreq, hist>>
    /\ UNCHANGED hostVars

\* the rest of the handler, outside the lock (lines 466-470): "if
\* should_shutdown: self.running = False", and the reply
UnregisterReturn(w) ==
    /\ pc[w] = "unlocked"
    /\ service_running' = IF local[w].should_shutdown THEN FALSE
                           ELSE service_running
    /\ reply' = [command |-> "unregister_session", status |-> "ok",
                 session_id |-> local[w].session_id,
                 session_count |-> local[w].count,
                 shutting_down |-> local[w].should_shutdown]
    /\ req' = [command |-> "unregister_return", session_id |-> None,
               pid |-> NoPid, before |-> sessions,
               was_running |-> service_running]
    /\ pc' = [pc EXCEPT ![w] = "idle"]
    /\ local' = [local EXCEPT ![w] = NoLocal]
    /\ UNCHANGED <<sessions, alive, mainPc, listening, socket_file, shist>>
    /\ UNCHANGED <<now, ev, heap, events_by_id, running, lock, schedPc,
                   next_event, waitUntil, woken, nreq, hist>>
    /\ UNCHANGED hostVars

\* the registry under concurrent handlers: each connection has its own
\* thread (lines 533-538), the PID checker has another
RaceNext ==
    \/ \E w \in Workers, sid \in SessionIds, pid \in Pids :
           RegisterSession(w, sid, pid)
    \/ \E w \in Workers, sid \in SessionIds \cup {None} :
           UnregisterLocked(w, sid)
    \/ \E w \in Workers : UnregisterReturn(w)
    \/ \E p \in Pids \ {NoPid} : PidExit(p)
    \/ CleanupDeadSessions
    \/ AcceptLoopExit
    \/ EngineShutdown
    \/ CloseSocket
    \/ UnlinkSocket
    \/ Tick

RaceSpec == Init /\ [][RaceNext]_vars

\* the step clears EscalationService.running
FlagCleared == service_running /\ ~service_running'

\* C37: in every interleaving of register_session, unregister_session and the
\* sweep, the registry is empty at the moment an unregister_session or a sweep
\* clears the running flag
Orig_C37_ShutdownOnlyWhenEmpty == [][FlagCleared => sessions' = <<>>]_vars

\* the part that holds: the sweep clears the flag inside the lock, with the
\* registry empty, and an unregister_session clears it only after it counted
\* zero sessions under the lock
Thm_C37_SweepClearsWhenEmpty ==
    [][FlagCleared =>
          \/ req'.command = "sweep" /\ sessions' = <<>>
          \/ req'.command = "unregister_return" /\ reply'.session_count = 0
      ]_vars

\* a daemon told to stop by a session count of zero holds a registered
\* session
Wit_C37_StoppingWithSession ==
    /\ ~service_running
    /\ reply.command = "unregister_session"
    /\ reply.shutting_down
    /\ sessions # <<>>

\* ============================================== requests around shutdown
\* the daemon's handlers while the running flag is cleared and the main
\* thread leaves the accept loop and stops the engine: no handler reads
\* self.running (lines 402-479), a connection accepted by the last accept()
\* (line 533) is served, and a handler thread started earlier runs on while
\* shutdown() (lines 550-563) is under way
LossAddRequests == {<<"X", "m1", <<1>>>>}

LossNext ==
    \/ \E w \in Workers, r \in LossAddRequests : AddBegin(w, r[1], r[2], r[3])
    \/ \E w \in Workers : AddPush(w)
    \/ \E w \in Workers : AddEnd(w)
    \/ \E w \in Workers : RegisterSession(w, "A", NoPid)
    \/ \E w \in Workers : UnregisterSession(w, "A")
    \/ \E w \in Workers : ShutdownCommand(w)
    \/ Signal
    \/ SchedTop
    \/ SchedWake
    \/ SchedFire
    \/ SchedReturn
    \/ AcceptLoopExit
    \/ EngineShutdown
    \/ Tick

LossSpec == Init /\ [][LossNext]_vars

\* the reply just sent accepts an add or a register_session
AcceptedWork ==
    /\ reply.command \in {"add", "register_session"}
    /\ reply.status = "ok"

\* C38: once the running flag is cleared no add and no register_session is
\* answered ok: an add answered ok is owned by a scheduler not told to stop,
\* a register_session answered ok by a daemon that is not shutting down
Orig_C38_NoWorkAcceptedAfterStop ==
    AcceptedWork =>
        /\ service_running
        /\ reply.command = "add" => running

\* an add is answered ok by a daemon whose scheduler thread has ended, its
\* event left in the heap for good
Wit_C38_AddOwnedByEndedScheduler ==
    /\ AcceptedWork
    /\ reply.command = "add"
    /\ ~service_running
    /\ schedPc = "exit"
    /\ \E e \in InHeap(heap) :
          ev[e].escalation_id = reply.escalation_id /\ ~ev[e].cancelled

\* a register_session is answered ok after the flag was cleared
Wit_C38_RegisteredWhileStopping ==
    /\ AcceptedWork
    /\ reply.command = "register_session"
    /\ ~service_running
    /\ sessions # <<>>

\* ============================================== the socket file's owner
\* Daemons on one socket path from start() to shutdown().  shutdown()'s
\* file-system calls are steps of their own, as those of start() are.

\* the accept loop of a serving daemon ends and shutdown() closes its
\* listening socket (lines 532-548, 557-558)
CloseListener(d) ==
    /\ Serving(d)
    /\ StartStep(d, "close", "closed", path, FALSE)

\* shutdown, line 560: if self.socket_path.exists()
ShutdownExists(d) ==
    /\ daemons[d].pc = "closed"
    /\ StartStep(d, "shutdown_exists",
                 IF path = "absent" THEN "stopped" ELSE "shutdown_unlink",
                 path, FALSE)

\* shutdown, line 561: self.socket_path.unlink(), whatever the path names
\* by now; on a missing path FileNotFoundError leaves shutdown() uncaught
ShutdownUnlink(d) ==
    /\ daemons[d].pc = "shutdown_unlink"
    /\ IF path = "absent"
       THEN StartStep(d, "shutdown_unlink", "crash", path, FALSE)
       ELSE StartStep(d, "shutdown_unlink", "stopped", "absent", TRUE)

\* the steps of a daemon inside shutdown()
ShutDown(d) ==
    \/ CloseListener(d)
    \/ ShutdownExists(d)
    \/ ShutdownUnlink(d)

OwnerNext ==
    \/ \E d \in Daemons : Launch(d)
    \/ \E d \in Daemons : StartUp(d)
    \/ \E d \in Daemons : ShutDown(d)

OwnerSpec == Init /\ [][OwnerNext]_vars

\* the step just taken was daemon req.daemon's unlink, in start() or in
\* shutdown(), and the file it removed was the socket of another daemon that
\* was bound to it and listening
UnlinkedLiveSocket(step) ==
    /\ req.command = "start"
    /\ req.step = step
    /\ path = "absent"
    /\ req.before \in req.live \ {req.daemon}

\* C39: a daemon never unlinks a socket file another live daemon is bound to
\* and listening on, neither in the stale-file removal of start() nor in
\* shutdown()
Orig_C39_SocketFileOwnership ==
    /\ ~UnlinkedLiveSocket("unlink")
    /\ ~UnlinkedLiveSocket("shutdown_unlink")

\* a daemon's shutdown() removed the socket file of another daemon, which
\* still listens
Wit_C39_ShutdownRemovedLiveSocket ==
    /\ UnlinkedLiveSocket("shutdown_unlink")
    /\ Serving(req.before)

\* a daemon's start() removed the socket file of a daemon that began to
\* listen after the probe
Wit_C39_StartRemovedLiveSocket ==
    /\ UnlinkedLiveSocket("unlink")
    /\ Serving(req.before)

\* ============================================== the SessionEnd hook
\* on_session_end.py, lines 24-28: the hook input read from stdin
SessionEndInput(s) == [session_id |-> s, hook_event_name |-> "SessionEnd"]

\* the request the hook sends: main calls unregister_session() without
\* arguments (line 34), and EscalationClient.unregister_session (lines
\* 211-217) sends the command alone; no field of the hook input is in it
UnregisterSessionMessage(hook_input) == [command |-> "unregister_session"]

\* one run of on_session_end.py for session s against the daemon: is_running
\* (line 33), the request, and the unregister_session handler serving it
\* (_handle_command, lines 452-470)
OnSessionEnd(w, s) ==
    /\ pc[w] = "idle"
    /\ ServiceIsRunning
    /\ Accepting
    /\ shist.n + shist.m < MaxSessionRequests
    /\ LET cmd == UnregisterSessionMessage(SessionEndInput(s))
           sid == Get(cmd, "session_id", None)
           target == UnregisterTarget(sessions, sid)
           left == IF target = None THEN sessions
                   ELSE RemoveSessions(sessions, {target})
           count == Len(left)
       IN  /\ sessions' = left
           /\ service_running' = IF ShouldShutdown(count) THEN FALSE
                                  ELSE service_running
           /\ reply' = [command |-> "unregister_session", status |-> "ok",
                        session_id |-> IF target = None THEN sid ELSE target,
                        session_count |-> count,
                        shutting_down |-> ShouldShutdown(count)]
           /\ shist' = [shist EXCEPT !.m = @ + 1,
                          !.removed = IF target = None THEN @ ELSE @ + 1]
           /\ req' = [command |-> "session_end", session |-> s,
                      session_id |-> sid, pid |-> NoPid, before |-> sessions,
                      was_running |-> service_running]
    /\ UNCHANGED <<alive, mainPc, listening, socket_file>>
    /\ UNCHANGED <<now, engineVars>>
    /\ UNCHANGED hostVars

\* sessions registered with the daemon under their ids, and their SessionEnd
\* hooks
EndNext ==
    \/ \E w \in Workers, sid \in SessionIds, pid \in Pids :
           RegisterSession(w, sid, pid)
    \/ \E w \in Workers, s \in SessionIds : OnSessionEnd(w, s)
    \/ AcceptLoopExit
    \/ EngineShutdown
    \/ CloseSocket
    \/ UnlinkSocket
    \/ Tick

EndSpec == Init /\ [][EndNext]_vars

\* the SessionEnd hook of a registered session has just run, with several
\* sessions registered
SessionEnded ==
    /\ req.command = "session_end"
    /\ Len(req.before) >= 2
    /\ req.session \in SessionIdsOf(req.before)

\* C40: with several sessions registered, the SessionEnd hook of session s
\* removes the record of s, and the records of all other sessions stay
Orig_C40_SessionEndRemovesOwn ==
    SessionEnded => sessions = RemoveSessions(req.before, {req.session})

\* the hook of one session removed the record of another, older one; the
\* ended session is still registered
Wit_C40_OtherSessionRemoved ==
    /\ SessionEnded
    /\ req.session \in SessionIdsOf(sessions)
    /\ reply.session_id # req.session
    /\ reply.session_id \notin SessionIdsOf(sessions)

====
